---- MODULE Spec2Model ----
(***************************************************************************)
(* wopr-plugin-skills: skill discovery/merge (src/src/skills.ts) and the   *)
(* skills_state store (skills-repository.ts).                              *)
(*                                                                         *)
(* Strings that the code inspects character by character (skill names,     *)
(* glob patterns, descriptions) are sequences of one-character strings.    *)
(***************************************************************************)
EXTENDS Integers, Sequences, FiniteSets, TLC

VARIABLES
    fs,        \* candidate path -> id of the physical SKILL.md it resolves to
    files,     \* physical file id -> parsed frontmatter [name, description]
    opts,      \* DiscoverOptions of the discovery callers
    result,    \* caller -> what its last discoverSkills call returned
    table,     \* skills_state: skill name (the primary key id) -> row
    pc,        \* state-store call slot -> position in its handler
    op,        \* slot -> operation in flight
    arg,       \* slot -> skill name the operation was called with
    existing,  \* slot -> what its findFirst returned
    alone,     \* slot -> no other call on the same name overlapped this one
    last,      \* the call that returned last: operation, name, returned value
    usage,     \* name -> recordSkillUsage calls that wrote the present row
    clean,     \* name -> every write to the present row came from a call that ran alone
    calls,     \* number of calls made to the plugin so far
    clock,     \* wall clock
    steps,     \* installSkillDependencies: skill.metadata.install
    provider,  \* installSkillDependencies: is a consentProvider given
    ipc,       \* installSkillDependencies: position of the call
    istep,     \* installSkillDependencies: index of the step of the loop
    ilog,      \* consent requests, consent answers and command runs, in order
    iret,      \* what installSkillDependencies returned
    req,       \* the call made to an install, remove, registry or command operation
    resp,      \* what that call returned or threw
    tree,      \* directories that exist, as paths from the parent of SKILLS_DIR
    spawned,   \* subprocesses started, in order
    registries,\* skill_registries: registry name (the primary key id) -> row
    faults     \* paths whose read fails: <<dir>> for readdirSync, a SKILL.md path for readFileSync

vars == <<fs, files, opts, result, table, pc, op, arg, existing, alone, last,
          usage, clean, calls, clock, steps, provider, ipc, istep, ilog, iret,
          req, resp, tree, spawned, registries, faults>>

discVars == <<fs, files, opts, result>>
storeVars == <<table, pc, op, arg, existing, alone, last, usage, clean, calls, clock>>
slotVars == <<pc, op, arg, existing, alone>>
installVars == <<steps, provider, ipc, istep, ilog, iret>>
callVars == <<req, resp>>
policyVars == <<tree, spawned>>
regVars == <<registries>>
ioVars == <<faults>>
restVars == <<installVars, callVars, policyVars, regVars, ioVars>>

----------------------------------------------------------------------------
(* Bounds of the model *)

MaxCands == 3      \* candidate skill directories in the file system
MaxTime == 2       \* the clock runs from 1 to MaxTime
MaxCalls == 3      \* calls made to the plugin in one run
MaxSteps == 2      \* install steps of a skill
MaxLen == 3        \* characters of a name or path given to install and remove
MaxPatterns == 2   \* patterns in includeSkills and in ignoreSkills
MaxFaults == 1     \* reads that fail during one scan
MaxRegs == 2       \* registries given to fetchAllRegistries
MaxSkills == 2     \* entries of the skills array of a registry manifest
MaxCommands == 3   \* skills given to buildSkillCommandSpecs
MaxEntries == 2    \* entries of a legacy JSON file
MaxRuns == 2       \* starts of the plugin, each running the migrations
MaxInitCalls == 4  \* calls of initSkillsStorage
MaxResets == 2     \* calls of resetSkillsStorageInit
MaxLoad == 2       \* candidate skill directories in a scan with blank descriptions and failing reads

----------------------------------------------------------------------------
(* Small helpers *)

Range(s) == {s[i] : i \in DOMAIN s}

RECURSIVE Concat(_)
Concat(ss) == IF ss = <<>> THEN <<>> ELSE Head(ss) \o Concat(Tail(ss))

FilterSeq(s, P(_)) == SelectSeq(s, P)

None == "none"

----------------------------------------------------------------------------
(* File system seen by discovery *)

NameA == <<"a">>
NameB == <<"b">>

\* readdirSync order inside one source directory
DirOrder == <<NameA, NameB>>
DirNames == Range(DirOrder)

ExtraDir1 == "E1"
ExtraDir2 == "E2"
BundledDir == "B"
SKILLS_DIR == "M"
PROJECT_SKILLS_DIR == "W"
Roots == {ExtraDir1, ExtraDir2, BundledDir, SKILLS_DIR, PROJECT_SKILLS_DIR}

\* join(dir, item.name, "SKILL.md")
SkillFile(dir, item) == <<dir, item>>
Paths == {SkillFile(d, n) : d \in Roots, n \in DirNames}


RootOrder == <<ExtraDir1, ExtraDir2, BundledDir, SKILLS_DIR, PROJECT_SKILLS_DIR>>

\* dirname(filePath) and basename(dirname(filePath))
BaseDir(filePath) == filePath
ParentDirName(filePath) == filePath[2]

\* realpathSync(skill.path): the physical file the path resolves to
RealPathNominal(filePath) == filePath
RealPath(filePath) == fs[filePath]

\* existsSync(skillFile) for an immediate subdirectory of dir
IsCandidate(dir, item) == SkillFile(dir, item) \in DOMAIN fs

----------------------------------------------------------------------------
(* skill-frontmatter-parser.ts: validation *)

MAX_NAME_LENGTH == 64
MAX_DESCRIPTION_LENGTH == 1024

\* NAME_PATTERN = /^[a-z0-9-]+$/
NameChars == {"a","b","c","d","e","f","g","h","i","j","k","l","m","n","o","p",
              "q","r","s","t","u","v","w","x","y","z",
              "0","1","2","3","4","5","6","7","8","9","-"}
MatchesNamePattern(name) == Len(name) > 0 /\ \A i \in 1..Len(name) : name[i] \in NameChars

Whitespace == {" ", "\t", "\n"}
\* description.trim() === ""
TrimIsEmpty(str) == \A i \in 1..Len(str) : str[i] \in Whitespace

\* !frontmatter.description || frontmatter.description.trim() === ""
DescriptionMissingNoTrim(description) == description = <<>>
DescriptionMissing(description) == description = <<>> \/ TrimIsEmpty(description)

\* a message text with the values interpolated into it
Msg(text, a, b) == [text |-> text, a |-> a, b |-> b]

validateSkillNameNoHyphenRule(name, parentDirName) ==
    (IF name # parentDirName THEN <<Msg("name does not match parent directory", name, parentDirName)>> ELSE <<>>)
    \o (IF Len(name) > MAX_NAME_LENGTH THEN <<Msg("name exceeds max characters", <<>>, <<>>)>> ELSE <<>>)
    \o (IF ~MatchesNamePattern(name) THEN <<Msg("name contains invalid characters", <<>>, <<>>)>> ELSE <<>>)
    \o (IF Len(name) > 0 /\ (name[1] = "-" \/ name[Len(name)] = "-")
           THEN <<Msg("name must not start or end with a hyphen", <<>>, <<>>)>> ELSE <<>>)
validateSkillName(name, parentDirName) ==
    (IF name # parentDirName THEN <<Msg("name does not match parent directory", name, parentDirName)>> ELSE <<>>)
    \o (IF Len(name) > MAX_NAME_LENGTH THEN <<Msg("name exceeds max characters", <<>>, <<>>)>> ELSE <<>>)
    \o (IF ~MatchesNamePattern(name) THEN <<Msg("name contains invalid characters", <<>>, <<>>)>> ELSE <<>>)
    \o (IF Len(name) > 0 /\ (name[1] = "-" \/ name[Len(name)] = "-")
           THEN <<Msg("name must not start or end with a hyphen", <<>>, <<>>)>> ELSE <<>>)
    \o (IF \E i \in 1..(Len(name) - 1) : name[i] = "-" /\ name[i + 1] = "-"
           THEN <<Msg("name must not contain consecutive hyphens", <<>>, <<>>)>> ELSE <<>>)

validateSkillDescription(description) ==
    IF DescriptionMissing(description) THEN <<Msg("description is required", <<>>, <<>>)>>
    ELSE IF Len(description) > MAX_DESCRIPTION_LENGTH THEN <<Msg("description exceeds max characters", <<>>, <<>>)>>
    ELSE <<>>

----------------------------------------------------------------------------
(* skills.ts: loading one source directory *)

Warning(skillPath, message) == [skillPath |-> skillPath, message |-> message]

WarningsFor(skillPath, messages) ==
    [i \in 1..Len(messages) |-> Warning(skillPath, messages[i])]

\* frontmatter.name || parentDirName
EffectiveName(frontmatter, parentDirName) ==
    IF frontmatter.name # <<>> THEN frontmatter.name ELSE parentDirName

loadSkillFromFile(filePath, source) ==
    LET frontmatter == files[fs[filePath]]
        parentDirName == ParentDirName(filePath)
        name == EffectiveName(frontmatter, parentDirName)
        warnings == WarningsFor(filePath, validateSkillName(name, parentDirName))
                    \o WarningsFor(filePath, validateSkillDescription(frontmatter.description))
    IN  IF filePath \in faults
        THEN [entry |-> <<>>,
              warnings |-> <<Warning(filePath, Msg("read failed", <<>>, <<>>))>>]
        ELSE IF DescriptionMissing(frontmatter.description)
        THEN [entry |-> <<>>, warnings |-> warnings]
        ELSE [entry |-> << [name |-> name,
                            description |-> frontmatter.description,
                            path |-> filePath,
                            baseDir |-> BaseDir(filePath),
                            source |-> source] >>,
              warnings |-> warnings]

\* the for-loop of loadSkillsFromDir over the items readdirSync returned
RECURSIVE LoadItemsAbortOnFailure(_, _, _)
LoadItemsAbortOnFailure(items, dir, source) ==
    IF items = <<>> \/ SkillFile(dir, Head(items)) \in faults
    THEN [entries |-> <<>>, warnings |-> <<>>]
    ELSE LET rest == LoadItemsAbortOnFailure(Tail(items), dir, source)
             item == Head(items)
         IN  IF ~IsCandidate(dir, item) THEN rest
             ELSE LET r == loadSkillFromFile(SkillFile(dir, item), source)
                  IN  [entries |-> r.entry \o rest.entries,
                       warnings |-> r.warnings \o rest.warnings]
RECURSIVE LoadItems(_, _, _)
LoadItems(items, dir, source) ==
    IF items = <<>> THEN [entries |-> <<>>, warnings |-> <<>>]
    ELSE LET rest == LoadItems(Tail(items), dir, source)
             item == Head(items)
         IN  IF ~IsCandidate(dir, item) THEN rest
             ELSE LET r == loadSkillFromFile(SkillFile(dir, item), source)
                  IN  [entries |-> r.entry \o rest.entries,
                       warnings |-> r.warnings \o rest.warnings]

\* readdirSync(dir) throws: the catch of lines 212-214 logs and the function
\* returns what it has, which is nothing
ReaddirFails(dir) == <<dir>> \in faults

loadSkillsFromDir(dir, source) ==
    IF ReaddirFails(dir) THEN [entries |-> <<>>, warnings |-> <<>>]
    ELSE LoadItems(DirOrder, dir, source)

----------------------------------------------------------------------------
(* skills.ts: discoverSkills *)

\* new RegExp("^" + escaped.replace("*", ".*").replace("?", ".") + "$").test(str)
RECURSIVE GlobMatch(_, _)
GlobMatch(pattern, str) ==
    IF pattern = <<>> THEN str = <<>>
    ELSE IF Head(pattern) = "*"
         THEN GlobMatch(Tail(pattern), str)
              \/ (str # <<>> /\ GlobMatch(pattern, Tail(str)))
         ELSE /\ str # <<>>
              /\ (Head(pattern) = "?" \/ Head(pattern) = Head(str))
              /\ GlobMatch(Tail(pattern), Tail(str))

matchesPattern(name, patterns) ==
    \E i \in 1..Len(patterns) : GlobMatch(patterns[i], name)

\* the source list in scanning order: extra dirs as given, bundled, managed, workspace
SourcesWorkspaceFirst(o) ==
    [i \in 1..Len(o.extraDirs) |-> [dir |-> o.extraDirs[i], source |-> "extra"]]
    \o (IF o.bundledDir # None THEN << [dir |-> o.bundledDir, source |-> "bundled"] >> ELSE <<>>)
    \o << [dir |-> o.workspaceDir, source |-> "workspace"],
          [dir |-> o.managedDir, source |-> "managed"] >>
Sources(o) ==
    [i \in 1..Len(o.extraDirs) |-> [dir |-> o.extraDirs[i], source |-> "extra"]]
    \o (IF o.bundledDir # None THEN << [dir |-> o.bundledDir, source |-> "bundled"] >> ELSE <<>>)
    \o << [dir |-> o.managedDir, source |-> "managed"],
          [dir |-> o.workspaceDir, source |-> "workspace"] >>

\* skillMap.get(skill.name): the skills are kept in insertion order, as a Map keeps them
MapHas(skillMap, name) == \E i \in 1..Len(skillMap) : skillMap[i].name = name
MapGet(skillMap, name) ==
    skillMap[CHOOSE i \in 1..Len(skillMap) : skillMap[i].name = name]

\* `name collision: "${skill.name}" already loaded from ${existing.path}, skipping`
CollisionMessage(name, existingPath) == Msg("name collision", name, existingPath)
IsCollision(w) == w.message.text = "name collision"

\* the body of the loop over the entries of one source
mergeEntryNoNameCheck(skill, acc, o) ==
    IF Len(o.ignoreSkills) > 0 /\ matchesPattern(skill.name, o.ignoreSkills) THEN acc
    ELSE IF Len(o.includeSkills) > 0 /\ ~matchesPattern(skill.name, o.includeSkills) THEN acc
    ELSE IF RealPath(skill.path) \in acc.realPathSet THEN acc
    ELSE [acc EXCEPT !.skillMap = Append(@, skill),
                     !.realPathSet = @ \cup {RealPath(skill.path)}]
mergeEntryIncludeWins(skill, acc, o) ==
    IF /\ ~(Len(o.includeSkills) > 0 /\ matchesPattern(skill.name, o.includeSkills))
       /\ \/ Len(o.ignoreSkills) > 0 /\ matchesPattern(skill.name, o.ignoreSkills)
          \/ Len(o.includeSkills) > 0
    THEN acc
    ELSE IF RealPath(skill.path) \in acc.realPathSet THEN acc
    ELSE IF MapHas(acc.skillMap, skill.name)
         THEN [acc EXCEPT !.allWarnings =
                   Append(@, Warning(skill.path,
                       CollisionMessage(skill.name, MapGet(acc.skillMap, skill.name).path)))]
         ELSE [acc EXCEPT !.skillMap = Append(@, skill),
                          !.realPathSet = @ \cup {RealPath(skill.path)}]
mergeEntry(skill, acc, o) ==
    IF Len(o.ignoreSkills) > 0 /\ matchesPattern(skill.name, o.ignoreSkills) THEN acc
    ELSE IF Len(o.includeSkills) > 0 /\ ~matchesPattern(skill.name, o.includeSkills) THEN acc
    ELSE LET realPath == RealPath(skill.path)
         IN  IF realPath \in acc.realPathSet THEN acc
             ELSE IF MapHas(acc.skillMap, skill.name)
                  THEN [acc EXCEPT !.allWarnings =
                            Append(@, Warning(skill.path,
                                CollisionMessage(skill.name, MapGet(acc.skillMap, skill.name).path)))]
                  ELSE [acc EXCEPT !.skillMap = Append(@, skill),
                                   !.realPathSet = @ \cup {realPath}]

RECURSIVE MergeEntries(_, _, _)
MergeEntries(entries, acc, o) ==
    IF entries = <<>> THEN acc
    ELSE MergeEntries(Tail(entries), mergeEntry(Head(entries), acc, o), o)

\* the loop over the sources
RECURSIVE ScanSources(_, _, _)
ScanSources(sources, acc, o) ==
    IF sources = <<>> THEN acc
    ELSE LET loaded == loadSkillsFromDir(Head(sources).dir, Head(sources).source)
             acc1 == [acc EXCEPT !.allWarnings = @ \o loaded.warnings]
         IN  ScanSources(Tail(sources), MergeEntries(loaded.entries, acc1, o), o)

NoResult == [skills |-> <<>>, warnings |-> <<>>, returned |-> FALSE]

\* allWarnings, skillMap and realPathSet as a call finds them when it starts
StaleAcc ==
    LET prev == IF \E c \in DOMAIN result : result[c].returned
                THEN result[CHOOSE c \in DOMAIN result : result[c].returned]
                ELSE NoResult
    IN  [allWarnings |-> <<>>, skillMap |-> prev.skills,
         realPathSet |-> {RealPath(prev.skills[i].path) : i \in 1..Len(prev.skills)}]
FreshAcc == [allWarnings |-> <<>>, skillMap |-> <<>>, realPathSet |-> {}]

discoverSkills(o) ==
    LET acc == ScanSources(Sources(o), FreshAcc, o)
    IN  [skills |-> acc.skillMap, warnings |-> acc.allWarnings, returned |-> TRUE]

\* discoverSkills() with the default options (paths.ts)
DefaultOptions ==
    [extraDirs |-> <<>>, bundledDir |-> None,
     managedDir |-> SKILLS_DIR, workspaceDir |-> PROJECT_SKILLS_DIR,
     includeSkills |-> <<>>, ignoreSkills |-> <<>>]

----------------------------------------------------------------------------
(* Inputs of discovery: file systems and options *)

Max(S) == CHOOSE x \in S : \A y \in S : y <= x

PathSeq == Concat([i \in 1..Len(RootOrder) |->
                     [j \in 1..Len(DirOrder) |-> SkillFile(RootOrder[i], DirOrder[j])]])
PathIndex(p) == CHOOSE i \in 1..Len(PathSeq) : PathSeq[i] = p

\* Two paths resolve to the same physical file when they carry the same id.
\* Ids are handed out in path order, so every sharing pattern appears once.
Layouts(S) ==
    {f \in [S -> 1..Cardinality(S)] :
        \A p \in S : f[p] <= 1 + Max({0} \cup {f[q] : q \in {r \in S : PathIndex(r) < PathIndex(p)}})}

FileSystems ==
    UNION {Layouts(S) : S \in {T \in SUBSET Paths : Cardinality(T) <= MaxCands}}

\* parsed frontmatter of a SKILL.md: a declared name (or none) and a description
Frontmatters == [name : {<<>>, NameB}, description : {<<"d">>}]

FilterChoices ==
    { [includeSkills |-> <<>>, ignoreSkills |-> <<>>],
      [includeSkills |-> <<>>, ignoreSkills |-> <<NameA>>],
      [includeSkills |-> <<NameA>>, ignoreSkills |-> <<>>] }

OptionChoices ==
    { [extraDirs |-> e, bundledDir |-> BundledDir,
       managedDir |-> SKILLS_DIR, workspaceDir |-> PROJECT_SKILLS_DIR,
       includeSkills |-> f.includeSkills, ignoreSkills |-> f.ignoreSkills] :
      e \in {<<ExtraDir2, ExtraDir1>>}, f \in FilterChoices }

\* independent callers of discoverSkills
Callers == {"caller1", "caller2"}

StoreUnused ==
    /\ table = <<>> /\ pc = <<>> /\ op = <<>> /\ arg = <<>> /\ existing = <<>>
    /\ alone = <<>> /\ last = <<>> /\ usage = <<>> /\ clean = <<>>
    /\ calls = 0 /\ clock = 0

InstallUnused ==
    /\ steps = <<>> /\ provider = FALSE /\ ipc = "unused" /\ istep = 0
    /\ ilog = <<>> /\ iret = "none"

CallUnused == req = <<>> /\ resp = <<>>
PolicyUnused == tree = {} /\ spawned = <<>>
RegUnused == registries = <<>>

NoFaults == faults = {}

RestUnused == InstallUnused /\ CallUnused /\ PolicyUnused /\ RegUnused /\ NoFaults

InitDiscover ==
    /\ fs \in FileSystems
    /\ files \in [{fs[p] : p \in DOMAIN fs} -> Frontmatters]
    /\ opts \in OptionChoices
    /\ result = [c \in Callers |-> NoResult]
    /\ StoreUnused
    /\ RestUnused

\* one caller runs discoverSkills(opts) to completion (the function is synchronous)
Discover(c) ==
    /\ result' = [result EXCEPT ![c] = discoverSkills(opts)]
    /\ UNCHANGED <<fs, files, opts>>
    /\ UNCHANGED storeVars
    /\ UNCHANGED restVars

NextDiscover == \E c \in Callers : Discover(c)

SpecDiscover == InitDiscover /\ [][NextDiscover]_vars

----------------------------------------------------------------------------
(* Vocabulary of the discovery claims *)

\* the precedence order the specification states: extra (as given), bundled,
\* managed, workspace
PrecedenceDirs(o) ==
    o.extraDirs
    \o (IF o.bundledDir # None THEN <<o.bundledDir>> ELSE <<>>)
    \o <<o.managedDir, o.workspaceDir>>

\* every skill the loader yields, in precedence order
Loaded ==
    Concat([i \in 1..Len(PrecedenceDirs(opts)) |->
              loadSkillsFromDir(PrecedenceDirs(opts)[i], "any").entries])

\* the ignore/include rule of the specification
PassesFilters(name) ==
    /\ ~matchesPattern(name, opts.ignoreSkills)
    /\ (opts.includeSkills = <<>> \/ matchesPattern(name, opts.includeSkills))

Returned(c) == result[c].returned
SkillPaths(c) == {result[c].skills[i].path : i \in 1..Len(result[c].skills)}
CollisionWarnings(c, path) ==
    {i \in 1..Len(result[c].warnings) :
        result[c].warnings[i].skillPath = path /\ IsCollision(result[c].warnings[i])}

SameNameOtherFile(L, i, j) ==
    /\ L[i].name = L[j].name
    /\ fs[L[i].path] # fs[L[j].path]

\* the file of entry i was accepted earlier through another path
AcceptedEarlier(L, accepted, i) ==
    \E k \in 1..(i - 1) : fs[L[k].path] = fs[L[i].path] /\ L[k].path \in accepted

----------------------------------------------------------------------------
(* C1: in every result of discoverSkills no two skills have the same name. *)
C1_UniqueNames ==
    \A c \in Callers : Returned(c) =>
        \A i, j \in 1..Len(result[c].skills) :
            i # j => result[c].skills[i].name # result[c].skills[j].name

\* a result with two skills, returned from sources where a name occurs twice
C1_Witness ==
    \E c \in Callers :
        LET L == Loaded
        IN  /\ Returned(c)
            /\ Len(result[c].skills) >= 2
            /\ \E i, j \in 1..Len(L) : i # j /\ SameNameOtherFile(L, i, j)
            /\ \E w \in Range(result[c].warnings) : IsCollision(w)

\* the scenario of C2: entries i and j, i scanned first, have the same name,
\* distinct real paths and different source roots, and the name passes the filters
C2_Scenario(L, i, j) ==
    /\ i < j
    /\ SameNameOtherFile(L, i, j)
    /\ L[i].path[1] # L[j].path[1]
    /\ PassesFilters(L[i].name)

C2_Outcome(L, c, i, j) ==
    /\ L[i].path \in SkillPaths(c)
    /\ L[j].path \notin SkillPaths(c)
    /\ Cardinality(CollisionWarnings(c, L[j].path)) = 1

(* C2, as stated: of two skills with distinct real paths and the same name in *)
(* two different source roots, the one scanned first is returned and the      *)
(* other gets exactly one name collision warning carrying its path. Read in   *)
(* the most favourable sense: the name passes the filters and no third skill  *)
(* has it.                                                                    *)
C2_AsStated ==
    \A c \in Callers : Returned(c) =>
        LET L == Loaded
        IN  \A i, j \in 1..Len(L) :
                ( /\ C2_Scenario(L, i, j)
                  /\ \A k \in 1..Len(L) : L[k].name = L[i].name => k \in {i, j} )
                => C2_Outcome(L, c, i, j)

(* C2, amended: the same, provided the name passes the filters, no skill     *)
(* scanned before the first one has that name, and neither file was already  *)
(* accepted through another path.                                            *)
C2_FirstSourceWins ==
    \A c \in Callers : Returned(c) =>
        LET L == Loaded
            accepted == SkillPaths(c)
        IN  \A i, j \in 1..Len(L) :
                ( /\ C2_Scenario(L, i, j)
                  /\ \A k \in 1..(i - 1) : L[k].name # L[i].name
                  /\ ~AcceptedEarlier(L, accepted, i)
                  /\ ~AcceptedEarlier(L, accepted, j) )
                => C2_Outcome(L, c, i, j)

\* managed and workspace both hold a skill of one name; the managed one is returned
C2_Witness ==
    \E c \in Callers :
        LET L == Loaded
            accepted == SkillPaths(c)
        IN  /\ Returned(c)
            /\ \E i, j \in 1..Len(L) :
                /\ C2_Scenario(L, i, j)
                /\ L[i].path[1] = SKILLS_DIR
                /\ L[j].path[1] = PROJECT_SKILLS_DIR
                /\ \A k \in 1..(i - 1) : L[k].name # L[i].name
                /\ ~AcceptedEarlier(L, accepted, i)
                /\ ~AcceptedEarlier(L, accepted, j)
                /\ C2_Outcome(L, c, i, j)

\* the entries of L that are backed by the physical file f
PathsOf(L, f) == {i \in 1..Len(L) : fs[L[i].path] = f}
EntriesFor(c, f) == {i \in 1..Len(result[c].skills) : fs[result[c].skills[i].path] = f}

\* the scenario of C3: the file f is reachable through two different paths,
\* and a name it is reachable under passes the filters
C3_Scenario(L, f) ==
    /\ Cardinality(PathsOf(L, f)) >= 2
    /\ \E i \in PathsOf(L, f) : PassesFilters(L[i].name)

C3_Outcome(L, c, f) ==
    /\ Cardinality(EntriesFor(c, f)) = 1
    /\ \A i \in PathsOf(L, f) : CollisionWarnings(c, L[i].path) = {}

----------------------------------------------------------------------------
(* skills-repository.ts: the skills_state table                              *)
(*                                                                           *)
(* The table is the repository of the host's storage engine, keyed by the    *)
(* primary key id (skills-schema.ts). insert of a key that is present fails, *)
(* update and delete of a key that is absent change nothing, and a field     *)
(* given as undefined in an update is cleared.                               *)

SkillNames == DirNames

\* calls of the state store that can be in flight together
Slots == {1, 2}

\* an optional timestamp field that is not set
NoTime == 0

\* repo.findFirst({ id: name }): null or the row
findFirst(t, name) == IF name \in DOMAIN t THEN <<t[name]>> ELSE <<>>

\* repo.findMany({})
findMany(t) == {t[id] : id \in DOMAIN t}

\* repo.insert(record)
insert(t, record) ==
    [id \in DOMAIN t \cup {record.id} |-> IF id = record.id THEN record ELSE t[id]]

\* repo.update(id, partial)
update(t, id, partial) ==
    IF id \notin DOMAIN t THEN t
    ELSE [t EXCEPT ![id] =
            [f \in DOMAIN @ |-> IF f \in DOMAIN partial THEN partial[f] ELSE @[f]]]

\* repo.delete(id)
deleteEveryRow(t, id) == IF id \in DOMAIN t THEN <<>> ELSE t
delete(t, id) == [k \in DOMAIN t \ {id} |-> t[k]]

\* discoverSkills().skills.find((s) => s.name === name)
SkillFound(name) ==
    \E sk \in Range(discoverSkills(DefaultOptions).skills) : sk.name = name

InFlight(s) == pc[s] \in {"read", "write"}

\* a call takes the first free slot
FreeSlot(s) == pc[s] = "idle" /\ \A q \in Slots : q < s => pc[q] # "idle"

\* one more call is made
Called == calls < MaxCalls /\ calls' = calls + 1

\* bookkeeping of a call that starts on slot s for name: it runs alone unless a
\* call on the same name is in flight, and that call is no longer alone either
Begin(s, o, name) ==
    LET others == {q \in Slots \ {s} : InFlight(q) /\ arg[q] = name}
    IN  /\ pc' = [pc EXCEPT ![s] = "read"]
        /\ op' = [op EXCEPT ![s] = o]
        /\ arg' = [arg EXCEPT ![s] = name]
        /\ existing' = [existing EXCEPT ![s] = <<>>]
        /\ alone' = [q \in Slots |-> IF q = s THEN others = {}
                                     ELSE IF q \in others THEN FALSE ELSE alone[q]]

\* the handler returns r: its locals are gone and the slot is free
End(s, r) ==
    /\ pc' = [pc EXCEPT ![s] = "idle"]
    /\ op' = [op EXCEPT ![s] = "none"]
    /\ arg' = [arg EXCEPT ![s] = <<>>]
    /\ existing' = [existing EXCEPT ![s] = <<>>]
    /\ alone' = [alone EXCEPT ![s] = TRUE]
    /\ last' = [op |-> op[s], name |-> arg[s], ret |-> r]

\* history of the row of name after slot s wrote it with an insert or an update
Created(s, name) == clean' = [clean EXCEPT ![name] = alone[s]]
Touched(s, name) == clean' = [clean EXCEPT ![name] = @ /\ alone[s]]

----------------------------------------------------------------------------
(* enableSkillAsync / disableSkillAsync *)

\* lines 76-79 and 102-105: the discovery gate
GateOpen(name) == TRUE
Gate(name) == SkillFound(name)

\* the call up to the first repository access; "if (!skill) return false"
EnableDisableCall(s, o, name) ==
    /\ FreeSlot(s) /\ Called
    /\ o \in {"enable", "disable"}
    /\ IF Gate(name)
       THEN /\ Begin(s, o, name)
            /\ UNCHANGED last
       ELSE /\ last' = [op |-> o, name |-> name, ret |-> "false"]
            /\ UNCHANGED slotVars
    /\ UNCHANGED <<table, usage, clean, clock>>
    /\ UNCHANGED discVars
    /\ UNCHANGED restVars

\* const existing = await repo.findFirst({ id: name }); of the row the
\* handlers read id and useCount
Read(s) ==
    /\ pc[s] = "read"
    /\ op[s] \in {"enable", "disable", "usage"}
    /\ existing' = [existing EXCEPT ![s] =
            IF findFirst(table, arg[s]) = <<>> THEN <<>>
            ELSE <<[id |-> findFirst(table, arg[s])[1].id,
                    useCount |-> findFirst(table, arg[s])[1].useCount]>>]
    /\ pc' = [pc EXCEPT ![s] = "write"]
    /\ UNCHANGED <<op, arg, alone, last, table, usage, clean, calls, clock>>
    /\ UNCHANGED discVars
    /\ UNCHANGED restVars

\* const now = new Date().toISOString()
Now == clock

EnablePatchKeepsStamp(s) == [enabled |-> TRUE]
EnablePatchWholeRow(s) ==
    [enabled |-> TRUE, enabledAt |-> Now, useCount |-> existing[s][1].useCount]
EnablePatch(s) == [enabled |-> TRUE, enabledAt |-> Now]

EnableRecord(s) ==
    [id |-> arg[s], enabled |-> TRUE, installed |-> TRUE,
     enabledAt |-> Now, lastUsedAt |-> NoTime, useCount |-> 0]

\* lines 84-97
EnableWrite(s) ==
    /\ pc[s] = "write" /\ op[s] = "enable"
    /\ IF existing[s] # <<>>
       THEN /\ table' = update(table, existing[s][1].id, EnablePatch(s))
            /\ Touched(s, arg[s])
            /\ End(s, "true")
       ELSE IF arg[s] \in DOMAIN table
            THEN /\ UNCHANGED <<table, clean>>
                 /\ End(s, "throw")
            ELSE /\ table' = insert(table, EnableRecord(s))
                 /\ Created(s, arg[s])
                 /\ End(s, "true")
    /\ UNCHANGED <<usage, calls, clock>>
    /\ UNCHANGED discVars
    /\ UNCHANGED restVars

DisablePatchKeepsStamp(s) == [enabled |-> FALSE]
DisablePatch(s) == [enabled |-> FALSE, enabledAt |-> NoTime]

DisableRecord(s) ==
    [id |-> arg[s], enabled |-> FALSE, installed |-> TRUE,
     enabledAt |-> NoTime, lastUsedAt |-> NoTime, useCount |-> 0]

\* lines 111-121
DisableWrite(s) ==
    /\ pc[s] = "write" /\ op[s] = "disable"
    /\ IF existing[s] # <<>>
       THEN /\ table' = update(table, existing[s][1].id, DisablePatch(s))
            /\ Touched(s, arg[s])
            /\ End(s, "true")
       ELSE IF arg[s] \in DOMAIN table
            THEN /\ UNCHANGED <<table, clean>>
                 /\ End(s, "throw")
            ELSE /\ table' = insert(table, DisableRecord(s))
                 /\ Created(s, arg[s])
                 /\ End(s, "true")
    /\ UNCHANGED <<usage, calls, clock>>
    /\ UNCHANGED discVars
    /\ UNCHANGED restVars

----------------------------------------------------------------------------
(* recordSkillUsage *)

UsageCall(s, name) ==
    /\ FreeSlot(s) /\ Called
    /\ Begin(s, "usage", name)
    /\ UNCHANGED <<last, table, usage, clean, clock>>
    /\ UNCHANGED discVars
    /\ UNCHANGED restVars

UsagePatchNoIncrement(s) ==
    [lastUsedAt |-> Now, useCount |-> existing[s][1].useCount]
UsagePatchOfRow(s) ==
    [lastUsedAt |-> Now,
     useCount |-> (IF arg[s] \in DOMAIN table THEN table[arg[s]].useCount ELSE 0) + 1]
UsagePatch(s) ==
    [lastUsedAt |-> Now, useCount |-> existing[s][1].useCount + 1]

UsageRecord(s) ==
    [id |-> arg[s], enabled |-> TRUE, installed |-> TRUE,
     enabledAt |-> Now, lastUsedAt |-> Now, useCount |-> 1]

\* lines 129-146
UsageWrite(s) ==
    /\ pc[s] = "write" /\ op[s] = "usage"
    /\ IF existing[s] # <<>>
       THEN /\ table' = update(table, existing[s][1].id, UsagePatch(s))
            /\ usage' = [usage EXCEPT ![arg[s]] =
                            IF arg[s] \in DOMAIN table THEN @ + 1 ELSE @]
            /\ Touched(s, arg[s])
            /\ End(s, "void")
       ELSE IF arg[s] \in DOMAIN table
            THEN /\ UNCHANGED <<table, usage, clean>>
                 /\ End(s, "throw")
            ELSE /\ table' = insert(table, UsageRecord(s))
                 /\ usage' = [usage EXCEPT ![arg[s]] = 1]
                 /\ Created(s, arg[s])
                 /\ End(s, "void")
    /\ UNCHANGED <<calls, clock>>
    /\ UNCHANGED discVars
    /\ UNCHANGED restVars

----------------------------------------------------------------------------
(* createSkill, removeSkill, removeSkillState *)

ManagedPath(name) == SkillFile(SKILLS_DIR, name)
\* the file createSkill writes for name
FileOf(name) == CHOOSE i \in 1..Len(DirOrder) : DirOrder[i] = name

\* skills.ts 559-586
CreateSkill(name) ==
    /\ ManagedPath(name) \notin DOMAIN fs
    /\ Called
    /\ fs' = [q \in DOMAIN fs \cup {ManagedPath(name)} |->
                IF q = ManagedPath(name) THEN FileOf(name) ELSE fs[q]]
    /\ files' = [i \in DOMAIN files \cup {FileOf(name)} |->
                IF i = FileOf(name) THEN [name |-> name, description |-> <<"d">>]
                ELSE files[i]]
    /\ UNCHANGED <<opts, result>>
    /\ UNCHANGED <<table, last, usage, clean, clock>>
    /\ UNCHANGED slotVars
    /\ UNCHANGED restVars

\* skills.ts 588-600: the directory is deleted, removeSkillState is started
\* and not awaited
RemoveSkill(s, name) ==
    /\ ManagedPath(name) \in DOMAIN fs
    /\ FreeSlot(s) /\ Called
    /\ fs' = [q \in DOMAIN fs \ {ManagedPath(name)} |-> fs[q]]
    /\ files' = [i \in DOMAIN files \ {FileOf(name)} |-> files[i]]
    /\ Begin(s, "remove", name)
    /\ UNCHANGED <<opts, result>>
    /\ UNCHANGED <<last, table, usage, clean, clock>>
    /\ UNCHANGED restVars

\* removeSkillState line 153-154: findFirst; without a row the handler returns
RemoveStateRead(s) ==
    /\ pc[s] = "read" /\ op[s] = "remove"
    /\ IF arg[s] \in DOMAIN table
       THEN /\ existing' = [existing EXCEPT ![s] =
                    <<[id |-> table[arg[s]].id, useCount |-> table[arg[s]].useCount]>>]
            /\ pc' = [pc EXCEPT ![s] = "write"]
            /\ UNCHANGED <<op, arg, alone, last>>
       ELSE End(s, "void")
    /\ UNCHANGED <<table, usage, clean, calls, clock>>
    /\ UNCHANGED discVars
    /\ UNCHANGED restVars

\* removeSkillState line 155: repo.delete(existing.id)
RemoveStateDelete(s) ==
    /\ pc[s] = "write" /\ op[s] = "remove"
    /\ table' = delete(table, existing[s][1].id)
    /\ IF arg[s] \in DOMAIN table
       THEN /\ usage' = [usage EXCEPT ![arg[s]] = 0]
            /\ clean' = [clean EXCEPT ![arg[s]] = TRUE]
       ELSE UNCHANGED <<usage, clean>>
    /\ End(s, "void")
    /\ UNCHANGED <<calls, clock>>
    /\ UNCHANGED discVars
    /\ UNCHANGED restVars

Tick ==
    /\ clock < MaxTime
    /\ clock' = clock + 1
    /\ UNCHANGED <<table, last, usage, clean, calls>>
    /\ UNCHANGED slotVars
    /\ UNCHANGED discVars
    /\ UNCHANGED restVars

----------------------------------------------------------------------------
(* The plugin at work: one skill is installed in the managed directory, the *)
(* state table is empty, no call is in flight. *)

Init ==
    /\ fs = (ManagedPath(NameA) :> FileOf(NameA))
    /\ files = (FileOf(NameA) :> [name |-> NameA, description |-> <<"d">>])
    /\ opts = DefaultOptions
    /\ result = [c \in Callers |-> NoResult]
    /\ table = <<>>
    /\ pc = [s \in Slots |-> "idle"]
    /\ op = [s \in Slots |-> "none"]
    /\ arg = [s \in Slots |-> <<>>]
    /\ existing = [s \in Slots |-> <<>>]
    /\ alone = [s \in Slots |-> TRUE]
    /\ last = [op |-> "none", name |-> <<>>, ret |-> "none"]
    /\ usage = [n \in SkillNames |-> 0]
    /\ clean = [n \in SkillNames |-> TRUE]
    /\ calls = 0
    /\ clock = 1
    /\ RestUnused

Next ==
    \/ \E s \in Slots, o \in {"enable", "disable"}, n \in SkillNames : EnableDisableCall(s, o, n)
    \/ \E s \in Slots, n \in SkillNames : UsageCall(s, n)
    \/ \E s \in Slots : Read(s)
    \/ \E s \in Slots : EnableWrite(s)
    \/ \E s \in Slots : DisableWrite(s)
    \/ \E s \in Slots : UsageWrite(s)
    \/ \E n \in SkillNames : CreateSkill(n)
    \/ \E s \in Slots, n \in SkillNames : RemoveSkill(s, n)
    \/ \E s \in Slots : RemoveStateRead(s)
    \/ \E s \in Slots : RemoveStateDelete(s)
    \/ Tick

Spec == Init /\ [][Next]_vars

----------------------------------------------------------------------------
(* Readers of the enabled status *)

\* skills-repository.ts 50-59
getAllSkillStates(t) == [id \in DOMAIN t |-> [enabled |-> t[id].enabled]]

\* skillStates[s.name]?.enabled !== false
NotDisabled(states, name) == ~(name \in DOMAIN states /\ states[name].enabled = FALSE)

\* existing?.enabled === true
isSkillEnabledStrict(name) ==
    LET e == findFirst(table, name) IN e # <<>> /\ e[1].enabled = TRUE
\* skills-repository.ts 62-67: existing?.enabled !== false
isSkillEnabledAsync(name) ==
    LET e == findFirst(table, name) IN ~(e # <<>> /\ e[1].enabled = FALSE)

\* routes.ts 25-40: GET /skills
ListSkillsRoute ==
    LET skills == discoverSkills(DefaultOptions).skills
        skillStates == getAllSkillStates(table)
    IN  [i \in 1..Len(skills) |->
            [name |-> skills[i].name, enabled |-> NotDisabled(skillStates, skills[i].name)]]

\* a2a-tools.ts 39-56: skills.list without a source filter
SkillsList ==
    LET skills == discoverSkills(DefaultOptions).skills
        states == getAllSkillStates(table)
    IN  [i \in 1..Len(skills) |->
            [name |-> skills[i].name, enabled |-> NotDisabled(states, skills[i].name)]]

\* skills.ts 706-709
getSkillByName(name) ==
    FilterSeq(discoverSkills(DefaultOptions).skills, LAMBDA sk : sk.name = name)

\* a2a-tools.ts 106-129: skills.info, <<>> stands for the error answer
SkillsInfo(name) ==
    LET skill == getSkillByName(name)
        states == getAllSkillStates(table)
    IN  IF skill = <<>> THEN <<>>
        ELSE <<[name |-> skill[1].name, enabled |-> NotDisabled(states, skill[1].name)]>>

----------------------------------------------------------------------------
(* Claims about the state store *)

\* the row a handler read is still in the table when the handler writes
RowKept(s) == existing[s] # <<>> => arg[s] \in DOMAIN table

C5_Step ==
    (calls' # calls /\ fs' = fs) =>
        \A n \in SkillNames :
            ~SkillFound(n) =>
                \A s \in Slots, o \in {"enable", "disable"} :
                    EnableDisableCall(s, o, n) =>
                        /\ last' = [op |-> o, name |-> n, ret |-> "false"]
                        /\ table' = table
                        /\ pc' = pc

\* C5: enableSkillAsync(name) and disableSkillAsync(name), called with a name
\* that discovery does not return, return false, leave the skills_state table
\* as it is and start no repository access.
C5_UnknownNameRefused == [][C5_Step]_vars

\* an enable or disable call on a name that is not discoverable has returned
\* false while the table holds a row
C5_Witness ==
    /\ last.op \in {"enable", "disable"}
    /\ last.ret = "false"
    /\ ~SkillFound(last.name)
    /\ table # <<>>

C6_Step ==
    \A s \in Slots :
        (EnableWrite(s) /\ last'.ret = "true" /\ RowKept(s)) =>
            /\ arg[s] \in DOMAIN table'
            /\ table'[arg[s]].enabled = TRUE
            /\ table'[arg[s]].enabledAt = clock
            /\ existing[s] = <<>> =>
                    /\ table'[arg[s]].installed = TRUE
                    /\ table'[arg[s]].useCount = 0

C7_Step ==
    \A s \in Slots :
        (DisableWrite(s) /\ last'.ret = "true" /\ RowKept(s)) =>
            /\ arg[s] \in DOMAIN table'
            /\ table'[arg[s]].enabled = FALSE
            /\ table'[arg[s]].enabledAt = NoTime

C8_Step ==
    \A s \in Slots :
        (UsageWrite(s) /\ last'.ret = "void" /\ RowKept(s)) =>
            /\ arg[s] \in DOMAIN table'
            /\ table'[arg[s]].lastUsedAt = clock
            /\ existing[s] = <<>> => table'[arg[s]].useCount = 1
            /\ (existing[s] # <<>> /\ alone[s]) =>
                    table'[arg[s]].useCount = table[arg[s]].useCount + 1

\* useCount of a row that only calls running one at a time have written is the
\* number of recordSkillUsage calls on it
C8_Serial ==
    \A n \in SkillNames :
        (n \in DOMAIN table /\ clean[n]) => table[n].useCount = usage[n]

EnabledByDefault(name) == name \notin DOMAIN table \/ table[name].enabled # FALSE

\* C9: in every state of the table and for every skill name, the readers agree:
\* isSkillEnabledAsync(name), the entry of name in GET /skills and in
\* skills.list, and skills.info(name) report enabled = true exactly when the
\* name has no row or the enabled field of its row is not false.
C9_ReadersAgree ==
    LET route == ListSkillsRoute
        list == SkillsList
    IN  \A n \in SkillNames :
            LET info == SkillsInfo(n)
                expected == EnabledByDefault(n)
            IN  /\ isSkillEnabledAsync(n) = expected
                /\ \A i \in DOMAIN route :
                        route[i].name = n => route[i].enabled = expected
                /\ \A i \in DOMAIN list :
                        list[i].name = n => list[i].enabled = expected
                /\ info # <<>> => info[1].enabled = expected

\* two skills are listed, one without a row and reported enabled, one with a
\* row that disable wrote and reported disabled
C9_Witness ==
    /\ Len(ListSkillsRoute) = 2
    /\ \E n, m \in SkillNames :
        /\ n \notin DOMAIN table /\ isSkillEnabledAsync(n)
        /\ SkillsInfo(n) # <<>> /\ SkillsInfo(n)[1].enabled
        /\ m \in DOMAIN table /\ table[m].enabled = FALSE
        /\ ~isSkillEnabledAsync(m)
        /\ SkillsInfo(m) # <<>> /\ ~SkillsInfo(m)[1].enabled

\* a recordSkillUsage write on a row that is there stores the count it read
\* plus one, whatever the row holds by now
C10_Step ==
    \A s \in Slots :
        (UsageWrite(s) /\ existing[s] # <<>> /\ arg[s] \in DOMAIN table) =>
            /\ table'[arg[s]].useCount = existing[s][1].useCount + 1
            /\ table[arg[s]].useCount > existing[s][1].useCount =>
                    table'[arg[s]].useCount <= table[arg[s]].useCount

C10_NoLoss ==
    \A n \in SkillNames :
        (n \in DOMAIN table /\ clean[n]) => usage[n] <= table[n].useCount

\* C10: the read and the write of a state-store call are separate steps with
\* no lock between them: a recordSkillUsage write stores the useCount it read
\* plus 1, so of two calls that both read before either writes the second
\* write replaces the first and useCount ends 1 higher, not 2; on a row that
\* calls wrote one at a time no recordSkillUsage update is lost.
C10_LastWriteWins == [][C10_Step]_vars /\ []C10_NoLoss

\* three recordSkillUsage calls were made on one name, the last two
\* interleaved: three writes, useCount 2
C10_Witness ==
    \E n \in SkillNames :
        /\ calls = 3
        /\ n \in DOMAIN table
        /\ usage[n] = 3
        /\ table[n].useCount = 2
        /\ ~clean[n]

----------------------------------------------------------------------------
(* installSkillDependencies (skills.ts 486-553)                              *)
(*                                                                           *)
(* skill.metadata is the JSON of the frontmatter, cast and not validated     *)
(* (resolveWoprMetadata), so an element of install may be null. Of a step    *)
(* the model keeps its kind and whether the field its kind reads (formula,   *)
(* package or script) is set.                                                *)

DiscUnused == fs = <<>> /\ files = <<>> /\ opts = <<>> /\ result = <<>>

StepKinds == {"brew", "apt", "npm", "pip", "script"}

\* a null element of the install array
NullStep == [kind |-> "null", arg |-> FALSE]

StepShapes ==
    {[kind |-> "brew", arg |-> TRUE], [kind |-> "script", arg |-> TRUE],
     [kind |-> "pip", arg |-> FALSE], NullStep}

StepLists == UNION {[1..n -> StepShapes] : n \in 0..MaxSteps}

\* skills.ts 58-73; reading step.kind of null throws
describeInstallStep(step) ==
    CASE step.kind = "null" -> <<"TypeError">>
      [] step.kind = "brew" -> <<"brew install", IF step.arg THEN "formula" ELSE "(unknown)">>
      [] step.kind = "apt" -> <<"sudo apt-get install -y", IF step.arg THEN "package" ELSE "(unknown)">>
      [] step.kind = "npm" -> <<"npm install -g", IF step.arg THEN "package" ELSE "(unknown)">>
      [] step.kind = "pip" -> <<"pip install", IF step.arg THEN "package" ELSE "(unknown)">>
      [] step.kind = "script" -> <<IF step.arg THEN "script" ELSE "(empty script)">>
      [] OTHER -> <<"(unknown kind)">>

\* the switch of lines 519-545 runs a command for the step
HasCommand(step) == step.kind \in StepKinds /\ step.arg

Event(e, k, v) == [e |-> e, k |-> k, v |-> v]

\* the handler returns r
InstallReturn(r, log) ==
    /\ ipc' = "done"
    /\ iret' = r
    /\ ilog' = log
    /\ UNCHANGED istep

\* lines 503-508: the loop reaches step k and asks for consent
RequestConsent(k, log) ==
    IF describeInstallStep(steps[k]) = <<"TypeError">>
    THEN InstallReturn("throw", log)
    ELSE /\ ipc' = "await"
         /\ istep' = k
         /\ ilog' = log \o <<Event("ask", k, "-")>>
         /\ UNCHANGED iret

\* lines 490-508: the call up to the first await
InstallCall ==
    /\ ipc = "ready"
    /\ IF steps = <<>> THEN InstallReturn("true", ilog)
       ELSE IF ~provider THEN InstallReturn("false", ilog)
       ELSE RequestConsent(1, ilog)
    /\ UNCHANGED <<steps, provider>>
    /\ UNCHANGED <<discVars, storeVars, callVars, policyVars, regVars, ioVars>>

\* line 513: if (!approved)
ApprovedAnyAnswer(answer) == TRUE
Approved(answer) == answer = "true"

\* after step k: the next iteration or "return true" (line 552)
NextStep(k, log) ==
    IF k = Len(steps) THEN InstallReturn("true", log) ELSE RequestConsent(k + 1, log)

\* lines 508-550: requestConsent settles with answer (true, false or a
\* rejection); the step's command runs synchronously (execFileSync) and
\* succeeds or throws; the loop goes on to the next request
ConsentAnswer(answer) ==
    /\ ipc = "await"
    /\ LET k == istep
           log1 == ilog \o <<Event("answer", k, answer)>>
       IN  IF ~Approved(answer) THEN InstallReturn("false", log1)
           ELSE IF HasCommand(steps[k])
                THEN \E ran \in {"ok", "fail"} :
                        LET log2 == log1 \o <<Event("exec", k, ran)>>
                        IN  IF ran = "fail" THEN InstallReturn("false", log2)
                            ELSE NextStep(k, log2)
                ELSE NextStep(k, log1)
    /\ UNCHANGED <<steps, provider>>
    /\ UNCHANGED <<discVars, storeVars, callVars, policyVars, regVars, ioVars>>

InitInstall ==
    /\ steps \in StepLists
    /\ provider \in BOOLEAN
    /\ ipc = "ready"
    /\ istep = 0
    /\ ilog = <<>>
    /\ iret = "none"
    /\ DiscUnused
    /\ StoreUnused
    /\ CallUnused /\ PolicyUnused /\ RegUnused /\ NoFaults

NextInstall ==
    \/ InstallCall
    \/ \E answer \in {"true", "false", "throw"} : ConsentAnswer(answer)

SpecInstall == InitInstall /\ [][NextInstall]_vars

----------------------------------------------------------------------------
(* Claims about installSkillDependencies *)

InLog(ev) == \E j \in DOMAIN ilog : ilog[j] = ev

\* step k was asked about, approved and, where it has a command, run without error
StepDone(k, upto) ==
    /\ \E j \in 1..upto : ilog[j] = Event("ask", k, "-")
    /\ \E j \in 1..upto : ilog[j] = Event("answer", k, "true")
    /\ HasCommand(steps[k]) => \E j \in 1..upto : ilog[j] = Event("exec", k, "ok")

\* C11: a step's command runs only right after the consent provider answered
\* true to the request for that same step, and consent for a step is requested
\* only when every step before it in the list has been asked about, approved
\* and run to its end: one step at a time, in list order.
C11_ConsentGatesEachStep ==
    \A j \in DOMAIN ilog :
        /\ ilog[j].e = "exec" =>
                /\ j > 2
                /\ ilog[j - 1] = Event("answer", ilog[j].k, "true")
                /\ ilog[j - 2] = Event("ask", ilog[j].k, "-")
        /\ ilog[j].e = "ask" =>
                /\ \A i \in 1..(j - 1) : ilog[i].k < ilog[j].k
                /\ \A k \in 1..(ilog[j].k - 1) : StepDone(k, j - 1)

\* two steps with commands were each asked about, approved and run, in order
C11_Witness ==
    /\ ipc = "done" /\ iret = "true"
    /\ Len(steps) = 2
    /\ HasCommand(steps[1]) /\ HasCommand(steps[2])
    /\ ilog = <<Event("ask", 1, "-"), Event("answer", 1, "true"), Event("exec", 1, "ok"),
                Event("ask", 2, "-"), Event("answer", 2, "true"), Event("exec", 2, "ok")>>

\* nothing is asked or run after a refused or failed consent or a failed command
StopsAtFailure ==
    \A j \in DOMAIN ilog :
        ((ilog[j].e = "answer" /\ ilog[j].v # "true")
            \/ (ilog[j].e = "exec" /\ ilog[j].v = "fail")) =>
                /\ j = Len(ilog)
                /\ ipc = "done" /\ iret = "false"

AllStepsDone == \A k \in DOMAIN steps : StepDone(k, Len(ilog))

\* C12 as stated: installSkillDependencies never throws; with steps and no
\* provider it returns false with nothing asked or run; a declined or failed
\* consent or a failed command makes it return false with nothing asked or run
\* afterwards; it returns true exactly when there are no steps or every step
\* was approved and ran without error.
C12_AsStated ==
    /\ ipc = "done" => iret \in {"true", "false"}
    /\ (ipc = "done" /\ steps # <<>> /\ ~provider) => (iret = "false" /\ ilog = <<>>)
    /\ StopsAtFailure
    /\ ipc = "done" => (iret = "true" <=> (steps = <<>> \/ AllStepsDone))

\* what holds of C12 when no element of install is null
C12_ObjectSteps ==
    (\A k \in DOMAIN steps : steps[k] # NullStep) => C12_AsStated

----------------------------------------------------------------------------
(* removeSkill, installSkillFromGitHub, installSkillFromUrl (skills.ts       *)
(* 588-681) on a directory tree. A path is the sequence of its segments from *)
(* two levels above SKILLS_DIR; names are sequences of characters.           *)

InputChars == {"a", ".", "/", ";"}
Strings(n) == UNION {[1..k -> InputChars] : k \in 0..n}

\* the character class [a-zA-Z0-9._-]
GitNameChars == {"a", "b", "z", "A", "Z", "0", "9", ".", "_", "-"}

\* /^[a-zA-Z0-9._-]+$/.test(str)
validNameAnything(str) == TRUE
validName(str) == str # <<>> /\ \A i \in DOMAIN str : str[i] \in GitNameChars

\* str.split("/")
RECURSIVE SplitSlash(_, _)
SplitSlash(str, cur) ==
    IF str = <<>> THEN <<cur>>
    ELSE IF Head(str) = "/" THEN <<cur>> \o SplitSlash(Tail(str), <<>>)
    ELSE SplitSlash(Tail(str), Append(cur, Head(str)))

\* skillPath.split("/").filter(Boolean)
PathSegments(str) == FilterSeq(SplitSlash(str, <<>>), LAMBDA seg : seg # <<>>)

SkillsPath == <<<<"h">>, <<"w">>, <<"skills">>>>

\* path.join(base, ...): "." and empty segments vanish, ".." drops a segment
RECURSIVE Normalize(_, _)
Normalize(base, segs) ==
    IF segs = <<>> THEN base
    ELSE IF Head(segs) \in {<<>>, <<".">>} THEN Normalize(base, Tail(segs))
    ELSE IF Head(segs) = <<".", ".">>
         THEN Normalize(IF base = <<>> THEN <<>> ELSE SubSeq(base, 1, Len(base) - 1),
                        Tail(segs))
    ELSE Normalize(Append(base, Head(segs)), Tail(segs))

\* join(SKILLS_DIR, name)
TargetDir(name) == Normalize(SkillsPath, SplitSlash(name, <<>>))

IsPrefix(a, b) == Len(a) <= Len(b) /\ SubSeq(b, 1, Len(a)) = a

existsSync(path) == path \in tree

\* what is left after rmSync(path, { recursive: true, force: true })
rmSync(path) == {q \in tree : ~IsPrefix(path, q)}

Answer(kind, msg) == [kind |-> kind, msg |-> msg]
Throw(msg) ==
    /\ resp' = Answer("error", msg)
    /\ UNCHANGED <<tree, spawned>>

\* skills.ts 588-600; removeSkillState runs later, on the state table
removeSkill ==
    /\ req.op = "remove" /\ resp = <<>>
    /\ IF ~existsSync(TargetDir(req.name)) THEN Throw("not found")
       ELSE /\ tree' = rmSync(TargetDir(req.name))
            /\ resp' = Answer("ok", "removed")
            /\ UNCHANGED spawned
    /\ UNCHANGED req
    /\ UNCHANGED <<discVars, storeVars, installVars, regVars, ioVars>>

\* name || pathSegments[pathSegments.length - 1]
GitHubSkillName(r) ==
    IF r.name # <<>> THEN r.name ELSE PathSegments(r.path)[Len(PathSegments(r.path))]

\* skills.ts 602-644; git clone succeeds or fails, and the new directory
\* holds a loadable skill of that name or not
installSkillFromGitHub ==
    /\ req.op = "github" /\ resp = <<>>
    /\ IF ~validName(req.owner) \/ ~validName(req.repo)
       THEN Throw("Invalid GitHub owner or repo name")
       ELSE IF \/ PathSegments(req.path) = <<>>
               \/ \E i \in DOMAIN PathSegments(req.path) :
                    \/ ~validName(PathSegments(req.path)[i])
                    \/ PathSegments(req.path)[i] = <<".", ".">>
       THEN Throw("Invalid skill path")
       ELSE IF ~validName(GitHubSkillName(req)) THEN Throw("Invalid skill name")
       ELSE IF existsSync(TargetDir(GitHubSkillName(req))) THEN Throw("already exists")
       ELSE /\ spawned' = spawned \o <<"git clone">>
            /\ \E cloned \in BOOLEAN, found \in BOOLEAN :
                IF ~cloned
                THEN /\ resp' = Answer("error", "Failed to install skill from GitHub")
                     /\ UNCHANGED tree
                ELSE /\ tree' = tree \cup {TargetDir(GitHubSkillName(req))}
                     /\ resp' = IF found THEN Answer("ok", "installed")
                                ELSE Answer("error", "Skill installed but not discoverable")
    /\ UNCHANGED req
    /\ UNCHANGED <<discVars, storeVars, installVars, regVars, ioVars>>

\* name || basename(source).replace(/\.git$/, ""); req.base is that basename
UrlSkillName(r) == IF r.name # <<>> THEN r.name ELSE r.base

\* skills.ts 646-681
installSkillFromUrl ==
    /\ req.op = "url" /\ resp = <<>>
    /\ IF ~validName(UrlSkillName(req)) THEN Throw("Invalid skill name")
       ELSE IF existsSync(TargetDir(UrlSkillName(req))) THEN Throw("already exists")
       ELSE IF req.protocol = "invalid" THEN Throw("Invalid skill source URL")
       ELSE IF req.protocol # "https:"
       THEN Throw("Only HTTPS URLs are supported for skill installation")
       ELSE /\ spawned' = spawned \o <<"git clone">>
            /\ \E cloned \in BOOLEAN, found \in BOOLEAN :
                IF ~cloned
                THEN /\ resp' = Answer("error", "git clone failed")
                     /\ UNCHANGED tree
                ELSE /\ tree' = tree \cup {TargetDir(UrlSkillName(req))}
                     /\ resp' = IF found THEN Answer("ok", "installed")
                                ELSE Answer("error", "Skill installed but not discoverable")
    /\ UNCHANGED req
    /\ UNCHANGED <<discVars, storeVars, installVars, regVars, ioVars>>

Request(o, name, owner, repo, path, protocol, base) ==
    [op |-> o, name |-> name, owner |-> owner, repo |-> repo, path |-> path,
     protocol |-> protocol, base |-> base]

PolicyRequests ==
    {Request("remove", n, <<>>, <<>>, <<>>, "-", <<>>) : n \in Strings(MaxLen)}
    \cup {Request("url", n, <<>>, <<>>, <<>>, pr, b) :
            n \in Strings(1), pr \in {"https:", "http:", "invalid"},
            b \in {<<"a", "a">>, <<"a", ";">>}}
    \cup {Request("github", n, o, r, p, "-", <<>>) :
            n \in Strings(1), o \in Strings(1), r \in Strings(1), p \in Strings(MaxLen)}

\* SKILLS_DIR with one installed skill "a" that has a subdirectory "a"
InitialTree ==
    {SubSeq(SkillsPath, 1, n) : n \in 0..Len(SkillsPath)}
    \cup {SkillsPath \o <<<<"a">>>>, SkillsPath \o <<<<"a">>, <<"a">>>>}

InitPolicy ==
    /\ req \in PolicyRequests
    /\ resp = <<>>
    /\ tree = InitialTree
    /\ spawned = <<>>
    /\ DiscUnused /\ StoreUnused /\ InstallUnused /\ RegUnused /\ NoFaults

NextPolicy ==
    \/ removeSkill
    \/ installSkillFromGitHub
    \/ installSkillFromUrl

SpecPolicy == InitPolicy /\ [][NextPolicy]_vars

----------------------------------------------------------------------------
(* Claims about install and remove *)

\* str has a character other than letters, digits, dot, hyphen, underscore
BadChar(str) == \E i \in DOMAIN str : str[i] \notin GitNameChars

\* the request is one the policy rejects
PolicyRejected(r) ==
    CASE r.op = "remove" -> BadChar(r.name)
      [] r.op = "github" ->
            \/ BadChar(r.owner) \/ BadChar(r.repo) \/ BadChar(r.name)
            \/ \E i \in DOMAIN PathSegments(r.path) : BadChar(PathSegments(r.path)[i])
      [] r.op = "url" -> BadChar(UrlSkillName(r)) \/ r.protocol # "https:"

\* C13 as stated: removeSkill, installSkillFromGitHub and installSkillFromUrl
\* answer a request that the policy rejects (a disallowed character in a name,
\* owner, repo or path segment, or a source URL that is not HTTPS) with an
\* error, with the directory tree unchanged and no subprocess started.
C13_AsStated ==
    (resp # <<>> /\ PolicyRejected(req)) =>
        /\ resp.kind = "error"
        /\ tree = InitialTree
        /\ spawned = <<>>

\* what holds of C13: the two install operations
C13_InstallOperations == req.op \in {"github", "url"} => C13_AsStated

----------------------------------------------------------------------------
(* discoverSkills under every include/ignore filter: two skills with names   *)
(* of their own, in two sources                                              *)

Patterns == {<<"a">>, <<"b">>, <<"*">>, <<"?">>, <<"a", "?">>}
PatternLists == UNION {[1..n -> Patterns] : n \in 0..MaxPatterns}

FilterOptions ==
    { [extraDirs |-> <<>>, bundledDir |-> None,
       managedDir |-> SKILLS_DIR, workspaceDir |-> PROJECT_SKILLS_DIR,
       includeSkills |-> inc, ignoreSkills |-> ign] :
      inc \in PatternLists, ign \in PatternLists }

InitFilter ==
    /\ fs = (SkillFile(SKILLS_DIR, NameA) :> 1) @@ (SkillFile(PROJECT_SKILLS_DIR, NameB) :> 2)
    /\ files = [i \in {1, 2} |-> [name |-> <<>>, description |-> <<"d">>]]
    /\ opts \in FilterOptions
    /\ result = [c \in Callers |-> NoResult]
    /\ StoreUnused
    /\ RestUnused

SpecFilter == InitFilter /\ [][NextDiscover]_vars

\* C14: a loaded skill is in the result of discoverSkills exactly when its
\* name matches no ignoreSkills pattern and includeSkills is empty or has a
\* pattern the name matches; in particular a name matching both an ignore and
\* an include pattern is left out.
C14_FilterRule ==
    \A c \in Callers :
        Returned(c) =>
            LET L == Loaded
                kept == SkillPaths(c)
            IN  \A i \in 1..Len(L) :
                    (L[i].path \in kept) <=>
                        /\ ~matchesPattern(L[i].name, opts.ignoreSkills)
                        /\ \/ opts.includeSkills = <<>>
                           \/ matchesPattern(L[i].name, opts.includeSkills)

\* "a" matches an ignore and an include pattern and is left out, "b" matches
\* only an include pattern and is kept
C14_Witness ==
    \E c \in Callers :
        /\ Returned(c)
        /\ matchesPattern(NameA, opts.ignoreSkills)
        /\ matchesPattern(NameA, opts.includeSkills)
        /\ ~matchesPattern(NameB, opts.ignoreSkills)
        /\ matchesPattern(NameB, opts.includeSkills)
        /\ Len(result[c].skills) = 1
        /\ result[c].skills[1].name = NameB

----------------------------------------------------------------------------
(* discoverSkills over sources with descriptions that are missing or blank   *)
(* and with reads that fail                                                  *)

LoadPaths == {SkillFile(d, n) : d \in {SKILLS_DIR, PROJECT_SKILLS_DIR}, n \in DirNames}

Descriptions == {<<>>, <<" ">>, <<"d">>}
LoadFrontmatters == [name : {<<>>, NameB}, description : Descriptions]

LoadOptions ==
    { [extraDirs |-> <<>>, bundledDir |-> None,
       managedDir |-> SKILLS_DIR, workspaceDir |-> PROJECT_SKILLS_DIR,
       includeSkills |-> f.includeSkills, ignoreSkills |-> f.ignoreSkills] :
      f \in FilterChoices }

FaultChoices(candidates) ==
    {F \in SUBSET (candidates \cup {<<SKILLS_DIR>>, <<PROJECT_SKILLS_DIR>>}) :
        Cardinality(F) <= MaxFaults}

InitLoad ==
    /\ fs \in UNION {Layouts(S) : S \in {T \in SUBSET LoadPaths : Cardinality(T) <= MaxLoad}}
    /\ files \in [{fs[p] : p \in DOMAIN fs} -> LoadFrontmatters]
    /\ opts \in LoadOptions
    /\ faults \in FaultChoices(DOMAIN fs)
    /\ result = [c \in Callers |-> NoResult]
    /\ StoreUnused
    /\ InstallUnused /\ CallUnused /\ PolicyUnused /\ RegUnused

SpecLoad == InitLoad /\ [][NextDiscover]_vars

----------------------------------------------------------------------------
(* Claims about descriptions and failing reads *)

\* str has a character that trimming keeps
HasText(str) == \E k \in DOMAIN str : str[k] \notin Whitespace

\* the candidates whose SKILL.md discovery reads: the directory lists and the
\* file reads
Readable(path) == path \notin faults /\ <<path[1]>> \notin faults

WarningsAbout(c, path) ==
    {i \in 1..Len(result[c].warnings) : result[c].warnings[i].skillPath = path}

\* C15: every skill in the result of discoverSkills has a description that is
\* not empty after trimming; a candidate that is read and whose description is
\* missing, empty or only whitespace has no entry in the result and has a
\* "description is required" warning carrying its path.
C15_DescriptionRequired ==
    \A c \in Callers :
        Returned(c) =>
            /\ \A i \in 1..Len(result[c].skills) : HasText(result[c].skills[i].description)
            /\ \A p \in DOMAIN fs :
                   (Readable(p) /\ ~HasText(files[fs[p]].description)) =>
                       /\ p \notin SkillPaths(c)
                       /\ \E i \in WarningsAbout(c, p) :
                              result[c].warnings[i].message.text = "description is required"

\* a scan that returned one skill and left out a candidate whose description
\* is a single space
C15_Witness ==
    \E c \in Callers :
        /\ Returned(c)
        /\ Len(result[c].skills) = 1
        /\ \E p \in DOMAIN fs :
               /\ Readable(p)
               /\ files[fs[p]].description = <<" ">>
               /\ p \notin SkillPaths(c)
               /\ WarningsAbout(c, p) # {}

\* the scan of a file system that differs only in that the candidate absent
\* does not exist
RECURSIVE LoadItemsWithout(_, _, _, _)
LoadItemsWithout(items, dir, source, absent) ==
    IF items = <<>> THEN [entries |-> <<>>, warnings |-> <<>>]
    ELSE LET rest == LoadItemsWithout(Tail(items), dir, source, absent)
             path == SkillFile(dir, Head(items))
         IN  IF path \notin DOMAIN fs \/ path = absent THEN rest
             ELSE LET r == loadSkillFromFile(path, source)
                  IN  [entries |-> r.entry \o rest.entries,
                       warnings |-> r.warnings \o rest.warnings]

RECURSIVE ScanWithout(_, _, _, _)
ScanWithout(sources, acc, o, absent) ==
    IF sources = <<>> THEN acc
    ELSE LET src == Head(sources)
             loaded == IF ReaddirFails(src.dir) THEN [entries |-> <<>>, warnings |-> <<>>]
                       ELSE LoadItemsWithout(DirOrder, src.dir, src.source, absent)
             acc1 == [acc EXCEPT !.allWarnings = @ \o loaded.warnings]
         IN  ScanWithout(Tail(sources), MergeEntries(loaded.entries, acc1, o), o, absent)

\* the candidates whose SKILL.md was found and could not be read or parsed
FailedReads == {p \in faults \cap DOMAIN fs : ~ReaddirFails(p[1])}

NotAbout(path, warnings) == SelectSeq(warnings, LAMBDA w : w.skillPath # path)

\* C16: a candidate SKILL.md that cannot be read or parsed has no entry in the
\* result and has a warning carrying its path; the skills returned, and the
\* warnings about every other file, are exactly those of the scan in which
\* the failing candidate does not exist.
C16_FailureIsolated ==
    \A c \in Callers :
        Returned(c) =>
            \A p \in FailedReads :
                LET without == ScanWithout(Sources(opts), FreshAcc, opts, p)
                IN  /\ p \notin SkillPaths(c)
                    /\ WarningsAbout(c, p) # {}
                    /\ result[c].skills = without.skillMap
                    /\ NotAbout(p, result[c].warnings) = without.allWarnings

\* the first candidate of the managed directory fails to read, and the second
\* candidate of that directory is returned
C16_Witness ==
    \E c \in Callers :
        /\ Returned(c)
        /\ SkillFile(SKILLS_DIR, NameA) \in FailedReads
        /\ WarningsAbout(c, SkillFile(SKILLS_DIR, NameA)) # {}
        /\ SkillFile(SKILLS_DIR, NameB) \in SkillPaths(c)

\* the name the filters see for the candidate at path
CandidateName(path) == EffectiveName(files[fs[path]], ParentDirName(path))

\* the candidate at path is accounted for in the result of caller c
Traced(c, path) ==
    \/ path \in SkillPaths(c)
    \/ ~PassesFilters(CandidateName(path))
    \/ \E q \in SkillPaths(c) : fs[q] = fs[path]
    \/ WarningsAbout(c, path) # {}

\* C17 as stated: whatever read fails during the scan, every existing
\* candidate that is absent from the skills discoverSkills returns is excluded
\* by the ignore/include filters, or has the real path of a returned skill,
\* or has a returned warning whose skillPath is its file path.
C17_AsStated ==
    \A c \in Callers :
        Returned(c) => \A p \in DOMAIN fs : Traced(c, p)

\* what holds of C17: the candidates of the directories that readdirSync lists
C17_ListedDirectories ==
    \A c \in Callers :
        Returned(c) => \A p \in DOMAIN fs : ~ReaddirFails(p[1]) => Traced(c, p)

----------------------------------------------------------------------------
(* registry-fetcher.ts: fetchAllRegistries                                   *)
(* registries is the skill_registries table, req the call (its input and the *)
(* promise of every registry), resp the aggregation loop and its outcome     *)

RegistryIds == <<"r1", "r2", "r3">>

\* the records listRegistries returned
RegistryRecord(i) == [id |-> RegistryIds[i], url |-> i]
RegistryInputs == {[i \in 1..n |-> RegistryRecord(i)] : n \in 0..MaxRegs}

\* elements of data.skills: objects with a name, or null (only
\* Array.isArray(data.skills) is checked)
NullEntry == [name |-> "null"]
SkillEntry(k) == [name |-> IF k % 2 = 1 THEN "skill-a" ELSE "skill-b"]
\* manifests of skill-a, skill-b, skill-a, ... with at most one null element
Manifests ==
    UNION {{[k \in 1..n |-> IF k = z THEN NullEntry ELSE SkillEntry(k)] : z \in 0..n} :
           n \in 0..MaxSkills}

\* what fetchRegistryManifest throws: a response that is not ok, a body
\* without a skills array, a network error, the abort of the 10 s timer
FetchErrors == {"status", "missing skills array", "network", "aborted"}

StoredRow(rec) == [url |-> rec.url, lastFetchedAt |-> None, lastError |-> None]

\* repo.update(existing.id, { lastFetchedAt, lastError }) when the row exists
updateRegistryFetchStatus(tbl, name, lastError) ==
    IF name \in DOMAIN tbl
    THEN [tbl EXCEPT ![name] = [@ EXCEPT !.lastFetchedAt = "now", !.lastError = lastError]]
    ELSE tbl

\* await fetchRegistryManifest(reg.url) settles for registry i
FetchSettles(i) ==
    /\ i \in DOMAIN req.results
    /\ req.results[i].state = "pending"
    /\ \/ \E m \in Manifests :
              req' = [req EXCEPT !.results[i] = [state |-> "fetched", manifest |-> m]]
       \/ \E e \in FetchErrors :
              req' = [req EXCEPT !.results[i] = [state |-> "rejected", reason |-> e]]
    /\ UNCHANGED <<resp, registries>>
    /\ UNCHANGED <<discVars, storeVars, installVars, policyVars, ioVars>>

\* await updateRegistryFetchStatus(reg.id, now).catch(() => {}); return
FetchStatusRecorded(i) ==
    /\ i \in DOMAIN req.results
    /\ req.results[i].state = "fetched"
    /\ req' = [req EXCEPT !.results[i].state = "fulfilled"]
    /\ \/ registries' = updateRegistryFetchStatus(registries, req.registries[i].id, None)
       \/ registries' = registries
    /\ UNCHANGED resp
    /\ UNCHANGED <<discVars, storeVars, installVars, policyVars, ioVars>>

\* Promise.allSettled has resolved
AllSettled ==
    \A i \in DOMAIN req.results : req.results[i].state \in {"fulfilled", "rejected"}

Tagged(manifest, id) ==
    [k \in 1..Len(manifest) |-> [name |-> manifest[k].name, registry |-> id]]

\* one iteration of the loop over results
AggregateResult ==
    /\ resp.pc = "running"
    /\ AllSettled
    /\ resp.i <= Len(req.results)
    /\ LET r == req.results[resp.i]
           reg == req.registries[resp.i]
       IN  IF r.state = "fulfilled"
           THEN /\ IF \E k \in DOMAIN r.manifest : r.manifest[k] = NullEntry
                   THEN resp' = [resp EXCEPT !.pc = "rejected"]
                   ELSE resp' = [resp EXCEPT !.skills = @ \o Tagged(r.manifest, reg.id),
                                             !.i = @ + 1]
                /\ UNCHANGED registries
           ELSE /\ resp' = [resp EXCEPT !.errors = Append(@, [registry |-> reg.id, error |-> r.reason]),
                                        !.i = @ + 1]
                /\ \/ registries' = updateRegistryFetchStatus(registries, reg.id, r.reason)
                   \/ registries' = registries
    /\ UNCHANGED req
    /\ UNCHANGED <<discVars, storeVars, installVars, policyVars, ioVars>>

\* return { skills: allSkills, errors: allErrors }, also for an empty input
FetchAllReturns ==
    /\ resp.pc = "running"
    /\ resp.i > Len(req.results)
    /\ resp' = [resp EXCEPT !.pc = "returned"]
    /\ UNCHANGED <<req, registries>>
    /\ UNCHANGED <<discVars, storeVars, installVars, policyVars, ioVars>>

InitFetch ==
    /\ \E input \in RegistryInputs :
          /\ req = [registries |-> input,
                    results |-> [i \in 1..Len(input) |-> [state |-> "pending"]]]
          /\ \E stored \in SUBSET (1..Len(input)) :
                 registries = [id \in {input[i].id : i \in stored} |->
                                  StoredRow(RegistryRecord(CHOOSE i \in stored : input[i].id = id))]
    /\ resp = [pc |-> "running", i |-> 1, skills |-> <<>>, errors |-> <<>>]
    /\ DiscUnused /\ StoreUnused /\ InstallUnused /\ PolicyUnused /\ NoFaults

NextFetch ==
    \/ \E i \in 1..MaxRegs : FetchSettles(i)
    \/ \E i \in 1..MaxRegs : FetchStatusRecorded(i)
    \/ AggregateResult
    \/ FetchAllReturns

SpecFetch == InitFetch /\ [][NextFetch]_vars

----------------------------------------------------------------------------
(* Claims about fetchAllRegistries *)

EntriesOf(id) == SelectSeq(resp.skills, LAMBDA e : e.registry = id)
ErrorsOf(id) == {k \in 1..Len(resp.errors) : resp.errors[k].registry = id}

\* the entries of the result for registry i are those of its own outcome
OwnOutcome(i) ==
    LET id == req.registries[i].id
        r == req.results[i]
    IN  IF r.state = "fulfilled"
        THEN EntriesOf(id) = Tagged(r.manifest, id) /\ ErrorsOf(id) = {}
        ELSE EntriesOf(id) = <<>> /\ Cardinality(ErrorsOf(id)) = 1

\* C18 as stated: fetchAllRegistries never rejects, and in its result every
\* registry of the input has either all skills of its manifest, tagged with
\* its id, or exactly one errors entry with its id, whatever the fetches of
\* the other registries did.
C18_AsStated ==
    resp.pc # "running" =>
        /\ resp.pc = "returned"
        /\ \A i \in DOMAIN req.results : OwnOutcome(i)

\* what holds of C18: manifests whose skills array holds objects only
ObjectEntries ==
    \A i \in DOMAIN req.results :
        req.results[i].state = "fulfilled" =>
            \A k \in DOMAIN req.results[i].manifest : req.results[i].manifest[k] # NullEntry
C18_ObjectEntries == ObjectEntries => C18_AsStated

----------------------------------------------------------------------------
(* registries-repository.ts: addRegistry and removeRegistry                  *)
(* registries is the skill_registries table, req the calls in flight (each   *)
(* awaits findFirst, then insert or delete), resp the last call that ended   *)

RegistryNames == {RegistryIds[1], RegistryIds[2]}
RegistryUrls == {1, 2}

Idle == [pc |-> "idle"]

\* repo.findFirst({ id: name })
NoRow == <<>>
FindFirst(tbl, name) == IF name \in DOMAIN tbl THEN [id |-> name] ELSE NoRow

\* repo.insert(record): the primary key is id, a second row with the key is refused
InsertRow(tbl, record) ==
    IF record.id \in DOMAIN tbl
    THEN [ok |-> FALSE, table |-> tbl]
    ELSE [ok |-> TRUE,
          table |-> [id \in DOMAIN tbl \cup {record.id} |->
                        IF id = record.id THEN StoredRow(record) ELSE tbl[id]]]

\* repo.delete(id)
DeleteRow(tbl, id) == [k \in DOMAIN tbl \ {id} |-> tbl[k]]

\* if (existing) throw new Error(`Registry "${name}" already exists`)
AddRefusesNever(found) == FALSE
AddRefuses(found) == found # NoRow

\* if (!existing) return false
RemoveRefuses(found) == found = NoRow

\* how a call ends: an error thrown, a record returned, a boolean returned
Throws(message) == [throws |-> message]
ReturnsRecord(record) == [record |-> record]
ReturnsBool(b) == [bool |-> b]

Ended(s, call, ret) ==
    [slot |-> s, op |-> call.op, name |-> call.name, url |-> call.url, ret |-> ret]

\* the lowest slot without a call
FreeRegistrySlot(s) == req[s] = Idle /\ \A t \in Slots : t < s => req[t] # Idle

\* addRegistry(name, url) or removeRegistry(name) is called
RegistryCall(s) ==
    /\ FreeRegistrySlot(s)
    /\ \/ \E name \in RegistryNames, url \in RegistryUrls :
              req' = [req EXCEPT ![s] = [pc |-> "read", op |-> "add", name |-> name, url |-> url]]
       \/ \E name \in RegistryNames :
              req' = [req EXCEPT ![s] = [pc |-> "read", op |-> "remove", name |-> name, url |-> 0]]
    /\ UNCHANGED <<resp, registries>>
    /\ UNCHANGED <<discVars, storeVars, installVars, policyVars, ioVars>>

\* addRegistry: findFirst answers; throw, or go on to insert
addRegistryRead(s) ==
    /\ req[s].pc = "read" /\ req[s].op = "add"
    /\ LET found == FindFirst(registries, req[s].name)
       IN  IF AddRefuses(found)
           THEN /\ req' = [req EXCEPT ![s] = Idle]
                /\ resp' = Ended(s, req[s], Throws("already exists"))
           ELSE /\ req' = [req EXCEPT ![s].pc = "write"]
                /\ UNCHANGED resp
    /\ UNCHANGED registries
    /\ UNCHANGED <<discVars, storeVars, installVars, policyVars, ioVars>>

\* addRegistry: insert answers; return record
addRegistryWrite(s) ==
    /\ req[s].pc = "write" /\ req[s].op = "add"
    /\ LET record == [id |-> req[s].name, url |-> req[s].url]
           r == InsertRow(registries, record)
       IN  /\ registries' = r.table
           /\ resp' = Ended(s, req[s], IF r.ok THEN ReturnsRecord(record) ELSE Throws("insert failed"))
    /\ req' = [req EXCEPT ![s] = Idle]
    /\ UNCHANGED <<discVars, storeVars, installVars, policyVars, ioVars>>

\* removeRegistry: findFirst answers; return false, or go on to delete
removeRegistryRead(s) ==
    /\ req[s].pc = "read" /\ req[s].op = "remove"
    /\ LET found == FindFirst(registries, req[s].name)
       IN  IF RemoveRefuses(found)
           THEN /\ req' = [req EXCEPT ![s] = Idle]
                /\ resp' = Ended(s, req[s], ReturnsBool(FALSE))
           ELSE /\ req' = [req EXCEPT ![s].pc = "write"]
                /\ UNCHANGED resp
    /\ UNCHANGED registries
    /\ UNCHANGED <<discVars, storeVars, installVars, policyVars, ioVars>>

\* removeRegistry: delete(existing.id) answers; return true
removeRegistryWrite(s) ==
    /\ req[s].pc = "write" /\ req[s].op = "remove"
    /\ registries' = DeleteRow(registries, req[s].name)
    /\ resp' = Ended(s, req[s], ReturnsBool(TRUE))
    /\ req' = [req EXCEPT ![s] = Idle]
    /\ UNCHANGED <<discVars, storeVars, installVars, policyVars, ioVars>>

InitRegistry ==
    /\ registries = <<>>
    /\ req = [s \in Slots |-> Idle]
    /\ resp = <<>>
    /\ DiscUnused /\ StoreUnused /\ InstallUnused /\ PolicyUnused /\ NoFaults

NextRegistry ==
    \E s \in Slots :
        \/ RegistryCall(s)
        \/ addRegistryRead(s)
        \/ addRegistryWrite(s)
        \/ removeRegistryRead(s)
        \/ removeRegistryWrite(s)

SpecRegistry == InitRegistry /\ [][NextRegistry]_vars

----------------------------------------------------------------------------
(* Claims about the registry store *)

\* call s gets the answer of findFirst, of insert or delete, in this step
ReadStep(s, o) == req[s].pc = "read" /\ req[s].op = o /\ req'[s].pc # "read"
WriteStep(s, o) == req[s].pc = "write" /\ req[s].op = o /\ req'[s] = Idle

Stored(name) == name \in DOMAIN registries

C19_Step(s) ==
    LET name == req[s].name
    IN  /\ (ReadStep(s, "add") /\ Stored(name)) =>
               /\ req'[s] = Idle
               /\ resp'.slot = s /\ resp'.ret = Throws("already exists")
               /\ registries' = registries
        /\ (WriteStep(s, "add") /\ ~Stored(name)) =>
               /\ resp'.slot = s /\ resp'.ret = ReturnsRecord([id |-> name, url |-> req[s].url])
               /\ DOMAIN registries' = DOMAIN registries \cup {name}
               /\ registries'[name].url = req[s].url
               /\ \A k \in DOMAIN registries : registries'[k] = registries[k]
        /\ (ReadStep(s, "remove") /\ ~Stored(name)) =>
               /\ req'[s] = Idle
               /\ resp'.slot = s /\ resp'.ret = ReturnsBool(FALSE)
               /\ registries' = registries
        /\ (WriteStep(s, "remove") /\ Stored(name)) =>
               /\ resp'.slot = s /\ resp'.ret = ReturnsBool(TRUE)
               /\ DOMAIN registries' = DOMAIN registries \ {name}
               /\ \A k \in DOMAIN registries' : registries'[k] = registries[k]
        /\ (ReadStep(s, "add") /\ ~Stored(name)) => req'[s].pc = "write"
        /\ (ReadStep(s, "remove") /\ Stored(name)) => req'[s].pc = "write"

\* C19: addRegistry(name, url) for a stored name ends with the error
\* 'already exists' and leaves the table as it is, and for a name that is not
\* stored adds exactly one row, with id = name; removeRegistry(name) for a
\* name that is not stored returns false and leaves the table as it is, and
\* for a stored name deletes that row and no other and returns true.
C19_RegistryStore == [][\A s \in Slots : C19_Step(s)]_vars

\* the last call was an addRegistry with url 1 refused for a stored name,
\* whose row, the only one, still holds url 2
C19_Witness ==
    /\ resp # <<>>
    /\ resp.op = "add" /\ resp.url = 1 /\ resp.ret = Throws("already exists")
    /\ resp.name \in DOMAIN registries
    /\ registries[resp.name].url = 2
    /\ Cardinality(DOMAIN registries) = 1

----------------------------------------------------------------------------
(* skills.ts: slash command names                                            *)
(* req is the call (skills and reservedNames), resp the specs returned       *)

SKILL_COMMAND_MAX_LENGTH == 32
SKILL_COMMAND_FALLBACK == <<"s", "k", "i", "l", "l">>
\* for (let index = 2; index < 1000; index++)
SUFFIX_INDEX_LIMIT == 1000

\* str.slice(0, n)
Slice(str, n) == SubSeq(str, 1, IF n < Len(str) THEN n ELSE Len(str))

\* str.toLowerCase()
LowerChar(ch) == IF ch = "A" THEN "a" ELSE IF ch = "B" THEN "b" ELSE ch
ToLowerCase(str) == [i \in DOMAIN str |-> LowerChar(str[i])]

\* [a-z0-9_]
CommandChars == (NameChars \ {"-"}) \cup {"_"}

\* .replace(/_+/g, "_")
RECURSIVE CollapseUnderscores(_)
CollapseUnderscores(str) ==
    IF Len(str) < 2 THEN str
    ELSE IF str[1] = "_" /\ str[2] = "_" THEN CollapseUnderscores(Tail(str))
    ELSE <<str[1]>> \o CollapseUnderscores(Tail(str))

\* .replace(/^_+|_+$/g, "") of a string without "__"
StripUnderscores(str) ==
    LET front == IF str # <<>> /\ Head(str) = "_" THEN Tail(str) ELSE str
    IN  IF front # <<>> /\ front[Len(front)] = "_" THEN SubSeq(front, 1, Len(front) - 1)
        ELSE front

sanitizeSkillCommandName(raw) ==
    LET lower == ToLowerCase(raw)
        replaced == [i \in DOMAIN lower |-> IF lower[i] \in CommandChars THEN lower[i] ELSE "_"]
        normalized == StripUnderscores(CollapseUnderscores(replaced))
        trimmed == Slice(normalized, SKILL_COMMAND_MAX_LENGTH)
    IN  IF trimmed = <<>> THEN SKILL_COMMAND_FALLBACK ELSE trimmed

\* the decimal digits of a positive integer
DigitChars == <<"0", "1", "2", "3", "4", "5", "6", "7", "8", "9">>
RECURSIVE Digits(_)
Digits(n) ==
    IF n < 10 THEN <<DigitChars[n + 1]>>
    ELSE Digits(n \div 10) \o <<DigitChars[(n % 10) + 1]>>

\* `${trimmedBase}${suffix}` for suffix = `_${index}`
SuffixCandidate(base, index) ==
    LET suffix == <<"_">> \o Digits(index)
        maxBaseLength == IF SKILL_COMMAND_MAX_LENGTH - Len(suffix) > 1
                         THEN SKILL_COMMAND_MAX_LENGTH - Len(suffix) ELSE 1
    IN  Slice(base, maxBaseLength) \o suffix

\* `${base.slice(0, Math.max(1, SKILL_COMMAND_MAX_LENGTH - 2))}_x`
FallbackCandidate(base) == Slice(base, SKILL_COMMAND_MAX_LENGTH - 2) \o <<"_", "x">>

\* the for loop: it returns at the first index whose candidate is not used
SuffixFree(base, used, index) == ToLowerCase(SuffixCandidate(base, index)) \notin used
SuffixLoop(base, used) ==
    LET indexes == 2..(SUFFIX_INDEX_LIMIT - 1)
    IN  IF \E index \in indexes : SuffixFree(base, used, index)
        THEN SuffixCandidate(base,
                 CHOOSE index \in indexes :
                     /\ SuffixFree(base, used, index)
                     /\ \A earlier \in 2..(index - 1) : ~SuffixFree(base, used, earlier))
        ELSE FallbackCandidate(base)

resolveUniqueAlwaysBase(base, used) == base
resolveUniqueSkillCommandName(base, used) ==
    IF ToLowerCase(base) \notin used THEN base
    ELSE SuffixLoop(base, used)

\* the map over the skills that have a commandDispatch, with the set used
RECURSIVE MapCommandSpecs(_, _)
MapCommandSpecs(skills, used) ==
    IF skills = <<>> THEN <<>>
    ELSE LET skill == Head(skills)
             base == sanitizeSkillCommandName(skill.name)
             unique == resolveUniqueSkillCommandName(base, used)
         IN  <<[name |-> unique, skillName |-> skill.name]>>
             \o MapCommandSpecs(Tail(skills), used \cup {ToLowerCase(unique)})

buildSkillCommandSpecs(skills, reservedNames) ==
    MapCommandSpecs(SelectSeq(skills, LAMBDA sk : sk.commandDispatch),
                    {ToLowerCase(r) : r \in reservedNames})

\* buildSkillCommandSpecs(skills, reservedNames) returns
BuildCommands ==
    /\ resp = <<>>
    /\ resp' = [specs |-> buildSkillCommandSpecs(req.skills, req.reservedNames)]
    /\ UNCHANGED req
    /\ UNCHANGED <<discVars, storeVars, installVars, policyVars, regVars, ioVars>>

\* skill names: plain, upper case, with a character that is replaced, with
\* nothing that is kept, of the shape of a suffixed name, and of 32 characters
LongName == [i \in 1..SKILL_COMMAND_MAX_LENGTH |-> "a"]
CommandSkillNames ==
    {<<"a">>, <<"A">>, <<"a", "-">>, <<"-">>, <<"a", "_", "2">>, LongName}

CommandSkills == [name : CommandSkillNames, commandDispatch : BOOLEAN]

\* every name the suffix loop tries for base, and base
AllNumbered(base) ==
    {base} \cup {SuffixCandidate(base, index) : index \in 2..(SUFFIX_INDEX_LIMIT - 1)}

ReservedChoices ==
    {{}, {<<"a">>}, {<<"A">>, <<"s", "k", "i", "l", "l">>}, {<<"a">>, <<"a", "_", "2">>}}

\* calls with few reserved names, and calls in which every numbered name of
\* "a" is reserved
CommandCalls ==
    [skills : UNION {[1..n -> CommandSkills] : n \in 0..MaxCommands},
     reservedNames : ReservedChoices]
    \cup [skills : UNION {[1..n -> [name : {<<"a">>, <<"A">>}, commandDispatch : {TRUE}]] :
                             n \in 1..2},
          reservedNames : {AllNumbered(<<"a">>)}]

InitCommands ==
    /\ req \in CommandCalls
    /\ resp = <<>>
    /\ DiscUnused /\ StoreUnused /\ InstallUnused /\ PolicyUnused /\ RegUnused /\ NoFaults

NextCommands == BuildCommands

SpecCommands == InitCommands /\ [][NextCommands]_vars

----------------------------------------------------------------------------
(* Claims about command names *)

CommandNames == [i \in DOMAIN resp.specs |-> ToLowerCase(resp.specs[i].name)]

\* C20 as stated: for any skills and any reserved names, the command names
\* buildSkillCommandSpecs returns are pairwise different ignoring case, and
\* none of them equals a reserved name ignoring case.
C20_AsStated ==
    resp # <<>> =>
        /\ \A i, j \in DOMAIN CommandNames : i # j => CommandNames[i] # CommandNames[j]
        /\ \A i \in DOMAIN CommandNames :
               \A r \in req.reservedNames : CommandNames[i] # ToLowerCase(r)

\* what holds of C20: fewer names than the suffix loop has indexes
C20_WithinSuffixes ==
    Cardinality(req.reservedNames) + Len(req.skills) < SUFFIX_INDEX_LIMIT - 1 => C20_AsStated

\* the skills of the call that have a command dispatch, in input order
Dispatched == SelectSeq(req.skills, LAMBDA sk : sk.commandDispatch)

\* the positions of the dispatched skills whose safe name is b, in order
RECURSIVE Ascending(_)
Ascending(S) ==
    IF S = {} THEN <<>>
    ELSE LET least == CHOOSE x \in S : \A y \in S : x <= y
         IN  <<least>> \o Ascending(S \ {least})
Group(b) == Ascending({i \in DOMAIN Dispatched : sanitizeSkillCommandName(Dispatched[i].name) = b})
SafeNames == {sanitizeSkillCommandName(Dispatched[i].name) : i \in DOMAIN Dispatched}

OnePerSkillInOrder ==
    /\ Len(resp.specs) = Len(Dispatched)
    /\ \A i \in DOMAIN Dispatched : resp.specs[i].skillName = Dispatched[i].name

\* the k-th skill of the group of b is named b for k = 1 and b_k after that
Numbered(b) ==
    LET g == Group(b)
    IN  \A k \in DOMAIN g :
            resp.specs[g[k]].name = IF k = 1 THEN b ELSE SuffixCandidate(b, k)

Reserved(b) == \E r \in req.reservedNames : ToLowerCase(r) = b

NamesFree(b) ==
    LET g == Group(b)
        wanted == {b} \cup {ToLowerCase(SuffixCandidate(b, k)) : k \in 2..Len(g)}
    IN  /\ \A r \in req.reservedNames : ToLowerCase(r) \notin wanted
        /\ \A i \in DOMAIN resp.specs :
               sanitizeSkillCommandName(Dispatched[i].name) # b =>
                   ToLowerCase(resp.specs[i].name) \notin wanted

----------------------------------------------------------------------------
(* skill-frontmatter-parser.ts: validateSkillName on its own                 *)
(* req is the call (name, parentDirName), resp the list returned             *)

ValidateChars == {"a", "A", "-"}
ShortNames == UNION {[1..n -> ValidateChars] : n \in 0..MaxLen}
\* names of exactly MAX_NAME_LENGTH characters and of one more
FullName == [i \in 1..MAX_NAME_LENGTH |-> "a"]
OverlongName == [i \in 1..(MAX_NAME_LENGTH + 1) |-> "a"]
ValidateNames == ShortNames \cup {FullName, OverlongName}
ValidateParents == {<<>>, <<"a">>, <<"a", "-">>, FullName, OverlongName}

ValidateName ==
    /\ resp = <<>>
    /\ resp' = [errors |-> validateSkillName(req.name, req.parentDirName)]
    /\ UNCHANGED req
    /\ UNCHANGED <<discVars, storeVars, installVars, policyVars, regVars, ioVars>>

InitValidate ==
    /\ req \in [name : ValidateNames, parentDirName : ValidateParents]
    /\ resp = <<>>
    /\ DiscUnused /\ StoreUnused /\ InstallUnused /\ PolicyUnused /\ RegUnused /\ NoFaults

NextValidate == ValidateName

SpecValidate == InitValidate /\ [][NextValidate]_vars

----------------------------------------------------------------------------
(* Claims about validateSkillName *)

\* the five rules in the words of the specification
DiffersFromParent == req.name # req.parentDirName
LongerThan64 == Len(req.name) > 64
HasCharOutside == \E i \in DOMAIN req.name : req.name[i] \notin NameChars
HyphenAtEnd ==
    req.name # <<>> /\ (req.name[1] = "-" \/ req.name[Len(req.name)] = "-")
DoubleHyphen ==
    \E i \in DOMAIN req.name :
        i < Len(req.name) /\ req.name[i] = "-" /\ req.name[i + 1] = "-"

\* the message texts a set of rules stands for
RuleTexts(differs, long, chars, ends, double) ==
    (IF differs THEN {"name does not match parent directory"} ELSE {})
    \cup (IF long THEN {"name exceeds max characters"} ELSE {})
    \cup (IF chars THEN {"name contains invalid characters"} ELSE {})
    \cup (IF ends THEN {"name must not start or end with a hyphen"} ELSE {})
    \cup (IF double THEN {"name must not contain consecutive hyphens"} ELSE {})

ErrorTexts == {resp.errors[i].text : i \in DOMAIN resp.errors}

\* C22 as stated: validateSkillName returns a non-empty list exactly when the
\* name differs from the parent, is longer than 64 characters, has a
\* character outside a-z, 0-9 and '-', starts or ends with '-', or contains
\* '--'; each violated rule adds its own message.
C22_AsStated ==
    resp # <<>> =>
        LET texts == RuleTexts(DiffersFromParent, LongerThan64, HasCharOutside,
                               HyphenAtEnd, DoubleHyphen)
        IN  /\ (resp.errors # <<>>) <=> (texts # {})
            /\ ErrorTexts = texts
            /\ Len(resp.errors) = Cardinality(texts)

\* C22: as above, with the third rule being that the name is empty or has a
\* character outside a-z, 0-9 and '-'.
C22_RulesAndMessages ==
    resp # <<>> =>
        LET texts == RuleTexts(DiffersFromParent, LongerThan64,
                               HasCharOutside \/ req.name = <<>>,
                               HyphenAtEnd, DoubleHyphen)
        IN  /\ (resp.errors # <<>>) <=> (texts # {})
            /\ ErrorTexts = texts
            /\ Len(resp.errors) = Cardinality(texts)

\* the name "--a" under the parent "a": three rules are violated and three
\* messages returned
C22_Witness ==
    /\ resp # <<>>
    /\ req.name = <<"-", "-", "a">>
    /\ req.parentDirName = <<"a">>
    /\ Len(resp.errors) = 3

----------------------------------------------------------------------------
(* Claims about the deletion of skill state records *)

\* slot s is the removeSkillState call that gets the answer of findFirst, or
\* of delete, in this step
RemoveReads(s) == pc[s] = "read" /\ op[s] = "remove" /\ pc'[s] # "read"
RemoveDeletes(s) == pc[s] = "write" /\ op[s] = "remove" /\ pc'[s] = "idle"

C23_Step ==
    /\ \A n \in DOMAIN table \ DOMAIN table' :
           /\ \E s \in Slots : RemoveDeletes(s) /\ arg[s] = n
           /\ \A k \in DOMAIN table \ {n} : k \in DOMAIN table' /\ table'[k] = table[k]
    /\ \A s \in Slots :
           /\ RemoveDeletes(s) => arg[s] \notin DOMAIN table'
           /\ (RemoveReads(s) /\ arg[s] \notin DOMAIN table) =>
                  table' = table /\ pc'[s] = "idle"
           /\ (RemoveReads(s) /\ arg[s] \in DOMAIN table) =>
                  table' = table /\ pc'[s] = "write"

\* C23: a step that removes a record from the skill state table is the
\* delete of a removeSkillState(name) call, removes the record of that name
\* and leaves every other record as it is; removeSkillState deletes the
\* record when findFirst found one and changes nothing when it found none;
\* no step of enable, disable or recordSkillUsage removes a record.
C23_OnlyRemoveDeletes == [][C23_Step]_vars

\* removeSkillState has returned and the record is gone, which an enable call
\* still in flight had read before
C23_Witness ==
    /\ last.op = "remove"
    /\ \E s \in Slots :
           /\ pc[s] = "write" /\ op[s] = "enable"
           /\ existing[s] # <<>>
           /\ arg[s] = last.name
           /\ arg[s] \notin DOMAIN table

----------------------------------------------------------------------------
(* removeSkill and the state cleanup it starts, with a repository that may   *)
(* fail: removeSkillState(name).catch((err) => logger.warn(...))             *)

\* findFirst or delete rejects and nothing catches it
RemoveStateFailsUncaught(s) ==
    /\ pc[s] \in {"read", "write"} /\ op[s] = "remove"
    /\ End(s, "throw")
    /\ UNCHANGED <<table, usage, clean, calls, clock>>
    /\ UNCHANGED discVars
    /\ UNCHANGED restVars

\* findFirst or delete rejects: removeSkillState rejects, the catch logs
RemoveStateFails(s) ==
    /\ pc[s] \in {"read", "write"} /\ op[s] = "remove"
    /\ End(s, "logged")
    /\ UNCHANGED <<table, usage, clean, calls, clock>>
    /\ UNCHANGED discVars
    /\ UNCHANGED restVars

NextCleanup ==
    \/ \E s \in Slots, o \in {"enable", "disable"}, n \in SkillNames : EnableDisableCall(s, o, n)
    \/ \E s \in Slots, n \in SkillNames : UsageCall(s, n)
    \/ \E s \in Slots : Read(s)
    \/ \E s \in Slots : EnableWrite(s)
    \/ \E s \in Slots : DisableWrite(s)
    \/ \E s \in Slots : UsageWrite(s)
    \/ \E n \in SkillNames : CreateSkill(n)
    \/ \E s \in Slots, n \in SkillNames : RemoveSkill(s, n)
    \/ \E s \in Slots : RemoveStateRead(s)
    \/ \E s \in Slots : RemoveStateDelete(s)
    \/ \E s \in Slots : RemoveStateFails(s)

\* the continuations of removeSkillState run when the repository has answered
CleanupFairness ==
    \A s \in Slots :
        /\ WF_vars(RemoveStateRead(s))
        /\ WF_vars(RemoveStateDelete(s))

SpecCleanup == Init /\ [][NextCleanup]_vars /\ CleanupFairness

----------------------------------------------------------------------------
(* Claims about removeSkill and the cleanup *)

\* removeSkill(n) runs in this step: the directory of n goes
RemovesDirectory(n) == ManagedPath(n) \in DOMAIN fs /\ ManagedPath(n) \notin DOMAIN fs'

CleanupRunning(s, n) == pc[s] \in {"read", "write"} /\ op[s] = "remove" /\ arg[s] = n

C24_Step ==
    /\ \A n \in SkillNames :
           RemovesDirectory(n) =>
               /\ table' = table
               /\ last' = last
               /\ \E s \in Slots : ~CleanupRunning(s, n) /\ pc'[s] = "read"
                                     /\ op'[s] = "remove" /\ arg'[s] = n
    /\ \A s \in Slots :
           (op[s] = "remove" /\ pc[s] # "idle" /\ pc'[s] = "idle") =>
               /\ last'.op = "remove"
               /\ last'.ret \in {"void", "logged"}
               /\ fs' = fs
               /\ last'.ret = "logged" => table' = table

\* C24: removeSkill(name) deletes the skill directory and returns with the
\* state table as it was and the cleanup started; the cleanup ends by
\* returning or by a logged failure, never by an error thrown to a caller,
\* and a failure changes nothing; and a cleanup that is started leads to a
\* state without a record of name, or to a logged failure of the repository.
C24_RemoveDoesNotWait ==
    /\ [][C24_Step]_vars
    /\ \A n \in SkillNames :
           (\E s \in Slots : CleanupRunning(s, n))
               ~> (n \notin DOMAIN table \/ (last.op = "remove" /\ last.ret = "logged"))

\* removeSkill has returned, its cleanup has read the record and has not
\* deleted it yet
C24_Witness ==
    \E s \in Slots :
        /\ CleanupRunning(s, NameA)
        /\ pc[s] = "write"
        /\ ManagedPath(NameA) \notin DOMAIN fs
        /\ NameA \in DOMAIN table

----------------------------------------------------------------------------
(* skills-migrate.ts: migrateSkillsToSQL and migrateRegistriesToSQL, run one *)
(* after the other by init (index.ts 48-50)                                  *)
(* req is the legacy files and their backups, resp the position of the run,  *)
(* table and registries are the two tables                                   *)

\* what a legacy file holds: no file, text JSON.parse rejects, the JSON null,
\* a JSON value that is not an array, or entries
Absent == [kind |-> "absent"]
Unparsable == [kind |-> "unparsable"]
JsonNull == [kind |-> "null"]
NotArray == [kind |-> "object"]
Entries(es) == [kind |-> "entries", entries |-> es]

\* entries of skills-state.json: name and state, the state may be null
SkillStateEntries ==
    {[name |-> NameA, state |-> "enabled"], [name |-> NameB, state |-> "disabled"],
     [name |-> NameB, state |-> "null"]}
SkillsFiles ==
    {Absent, Unparsable, JsonNull}
    \cup {Entries(es) : es \in UNION {[1..n -> SkillStateEntries] : n \in 0..MaxEntries}}

\* entries of registries.json: name and url, or an entry without them
RegistryFileEntries ==
    {[name |-> RegistryIds[1], url |-> 1], [name |-> RegistryIds[2], url |-> 1],
     [name |-> "malformed", url |-> 0]}
RegistriesFiles ==
    {Absent, Unparsable, NotArray}
    \cup {Entries(es) : es \in UNION {[1..n -> RegistryFileEntries] : n \in 0..MaxEntries}}

\* the record migrateSkillState inserts
MigratedRecord(entry) ==
    [id |-> entry.name, enabled |-> entry.state = "enabled", installed |-> TRUE,
     enabledAt |-> IF entry.state = "enabled" THEN Now ELSE NoTime,
     lastUsedAt |-> NoTime, useCount |-> 0]

\* backupFile(filePath): renameSync(filePath, `${filePath}.backup`)
backupFile(disk, file, backup) ==
    IF disk[file] # Absent
    THEN [disk EXCEPT ![backup] = disk[file], ![file] = Absent]
    ELSE disk

MigrationFrame ==
    /\ UNCHANGED <<pc, op, arg, existing, alone, last, usage, clean, calls, clock>>
    /\ UNCHANGED <<discVars, installVars, policyVars, ioVars>>

\* migrateSkillsToSQL up to the loop
MigrateSkillsBegin ==
    /\ resp.pc = "skills"
    /\ LET file == req.skills
       IN  resp' = [resp EXCEPT
                !.pc = IF file \in {Absent, Unparsable} THEN "registries"
                       ELSE IF file = JsonNull THEN "rejected"
                       ELSE "skillsLoop",
                !.i = 1]
    /\ UNCHANGED <<req, table, registries>>
    /\ MigrationFrame

\* one iteration of the loop over Object.entries(skillsState)
MigrateSkillEntry ==
    /\ resp.pc = "skillsLoop"
    /\ resp.i <= Len(req.skills.entries)
    /\ LET entry == req.skills.entries[resp.i]
       IN  \/ /\ entry.state # "null"
              /\ entry.name \notin DOMAIN table
              /\ table' = insert(table, MigratedRecord(entry))
              /\ resp' = [resp EXCEPT !.i = @ + 1]
           \/ /\ table' = table
              /\ resp' = [resp EXCEPT !.i = @ + 1, !.failed = @ \cup {<<"skills", resp.i>>}]
    /\ UNCHANGED <<req, registries>>
    /\ MigrationFrame

\* after the loop: backupFile(SKILLS_STATE_FILE)
MigrateSkillsBackup ==
    /\ resp.pc = "skillsLoop"
    /\ resp.i > Len(req.skills.entries)
    /\ req' = backupFile(req, "skills", "skillsBackup")
    /\ resp' = [resp EXCEPT !.pc = "registries"]
    /\ UNCHANGED <<table, registries>>
    /\ MigrationFrame

\* migrateRegistriesToSQL up to the loop
MigrateRegistriesBegin ==
    /\ resp.pc = "registries"
    /\ resp' = [resp EXCEPT
            !.pc = IF req.registries \in {Absent, Unparsable, NotArray} THEN "done"
                   ELSE "registriesLoop",
            !.i = 1]
    /\ UNCHANGED <<req, table, registries>>
    /\ MigrationFrame

\* one iteration of the loop over the registries: a malformed entry is
\* skipped, addRegistry inserts, throws 'already exists' or fails
MigrateRegistryEntry ==
    /\ resp.pc = "registriesLoop"
    /\ resp.i <= Len(req.registries.entries)
    /\ LET reg == req.registries.entries[resp.i]
       IN  \/ /\ reg.name # "malformed"
              /\ ~AddRefuses(FindFirst(registries, reg.name))
              /\ registries' = InsertRow(registries, [id |-> reg.name, url |-> reg.url]).table
              /\ resp' = [resp EXCEPT !.i = @ + 1]
           \/ /\ registries' = registries
              /\ resp' = [resp EXCEPT !.i = @ + 1,
                                      !.failed = @ \cup {<<"registries", resp.i>>}]
    /\ UNCHANGED <<req, table>>
    /\ MigrationFrame

\* after the loop: backupFile(REGISTRIES_FILE)
MigrateRegistriesBackup ==
    /\ resp.pc = "registriesLoop"
    /\ resp.i > Len(req.registries.entries)
    /\ req' = backupFile(req, "registries", "registriesBackup")
    /\ resp' = [resp EXCEPT !.pc = "done"]
    /\ UNCHANGED <<table, registries>>
    /\ MigrationFrame

\* the plugin is started again
InitAgain ==
    /\ resp.pc \in {"done", "rejected"}
    /\ resp.run < MaxRuns
    /\ resp' = [resp EXCEPT !.run = @ + 1, !.pc = "skills", !.i = 1, !.failed = {}]
    /\ UNCHANGED <<req, table, registries>>
    /\ MigrationFrame

InitMigrate ==
    /\ req \in [skills : SkillsFiles, skillsBackup : {Absent},
                 registries : RegistriesFiles, registriesBackup : {Absent}]
    /\ resp = [run |-> 1, pc |-> "skills", i |-> 1, failed |-> {}]
    /\ table \in {<<>>, insert(<<>>, [id |-> NameA, enabled |-> FALSE, installed |-> TRUE,
                                      enabledAt |-> NoTime, lastUsedAt |-> NoTime,
                                      useCount |-> 1])}
    /\ registries \in {<<>>, InsertRow(<<>>, [id |-> RegistryIds[1], url |-> 2]).table}
    /\ pc = <<>> /\ op = <<>> /\ arg = <<>> /\ existing = <<>>
    /\ alone = <<>> /\ last = <<>> /\ usage = <<>> /\ clean = <<>>
    /\ calls = 0 /\ clock = 1
    /\ DiscUnused /\ InstallUnused /\ PolicyUnused /\ NoFaults

NextMigrate ==
    \/ MigrateSkillsBegin
    \/ MigrateSkillEntry
    \/ MigrateSkillsBackup
    \/ MigrateRegistriesBegin
    \/ MigrateRegistryEntry
    \/ MigrateRegistriesBackup
    \/ InitAgain

SpecMigrate == InitMigrate /\ [][NextMigrate]_vars

----------------------------------------------------------------------------
(* Claims about the migrations *)

Parsed(file) == file \notin {Absent, Unparsable}

\* the run of migrateSkillsToSQL, of migrateRegistriesToSQL, ends in this step
SkillsMigrationEnds == resp.pc \in {"skills", "skillsLoop"} /\ resp'.pc \notin {"skills", "skillsLoop"}
RegistriesMigrationEnds ==
    resp.pc \in {"registries", "registriesLoop"} /\ resp'.pc \notin {"registries", "registriesLoop"}

C25_Step ==
    /\ (req.skills = Absent /\ resp.pc = "skills") => (table' = table /\ resp'.pc = "registries")
    /\ (req.registries = Absent /\ resp.pc = "registries") =>
           (registries' = registries /\ resp'.pc = "done")
    /\ (SkillsMigrationEnds /\ Parsed(req.skills)) =>
           /\ resp'.pc = "registries"
           /\ req'.skills = Absent /\ req'.skillsBackup = req.skills
           /\ resp.i > Len(req.skills.entries)
    /\ (RegistriesMigrationEnds /\ Parsed(req.registries) /\ req.registries # NotArray) =>
           /\ req'.registries = Absent /\ req'.registriesBackup = req.registries
           /\ resp.i > Len(req.registries.entries)
    /\ resp.run > 1 =>
           /\ Parsed(req.skillsBackup) => table' = table
           /\ Parsed(req.registriesBackup) => registries' = registries

\* C25 as stated: with no legacy file a migration writes nothing; a run that
\* could parse the legacy file ends with the file renamed to its backup,
\* after every entry had its turn, also when entries were duplicates or
\* failed; and a run after that one writes nothing more.
C25_AsStated == [][C25_Step]_vars

\* what holds of C25: a skills-state.json that does not hold the JSON null
C25_ObjectFiles == [][req.skills # JsonNull => C25_Step]_vars

----------------------------------------------------------------------------
(* skills-repository.ts: initSkillsStorage, setPluginContext and             *)
(* resetSkillsStorageInit. req is the module state (ctx, initialized), resp  *)
(* counts the calls: awaiting is the calls waiting for register to resolve,  *)
(* registered the calls of ctx.storage.register since the last reset;        *)
(* overlapped records that a call or a reset came while a call was waiting   *)

StorageFrame ==
    UNCHANGED <<discVars, storeVars, installVars, policyVars, regVars, ioVars>>

\* setPluginContext(context)
setPluginContext ==
    /\ ~req.ctx
    /\ req' = [req EXCEPT !.ctx = TRUE]
    /\ UNCHANGED resp
    /\ StorageFrame

\* resetSkillsStorageInit()
resetSkillsStorageInit ==
    /\ resp.resets < MaxResets
    /\ req' = [req EXCEPT !.initialized = FALSE]
    /\ resp' = [resp EXCEPT !.resets = @ + 1, !.registered = 0, !.returned = 0,
                            !.overlapped = @ \/ resp.awaiting > 0]
    /\ StorageFrame

\* initSkillsStorage() up to the await: returns at the guard, or calls
\* ctx.storage.register and waits
initSkillsStorage ==
    /\ resp.calls < MaxInitCalls
    /\ IF req.initialized \/ ~req.ctx
       THEN resp' = [resp EXCEPT !.calls = @ + 1, !.returned = @ + 1,
                                 !.overlapped = @ \/ resp.awaiting > 0]
       ELSE resp' = [resp EXCEPT !.calls = @ + 1, !.awaiting = @ + 1, !.registered = @ + 1,
                                 !.overlapped = @ \/ resp.awaiting > 0]
    /\ UNCHANGED req
    /\ StorageFrame

\* initSkillsStorage() after the await: initialized = true
RegisterResolves ==
    /\ resp.awaiting > 0
    /\ req' = [req EXCEPT !.initialized = TRUE]
    /\ resp' = [resp EXCEPT !.awaiting = @ - 1, !.returned = @ + 1]
    /\ StorageFrame

InitStorage ==
    /\ req = [ctx |-> FALSE, initialized |-> FALSE]
    /\ resp = [calls |-> 0, awaiting |-> 0, registered |-> 0, returned |-> 0, resets |-> 0,
               overlapped |-> FALSE]
    /\ DiscUnused /\ StoreUnused /\ InstallUnused /\ PolicyUnused /\ RegUnused /\ NoFaults

NextStorage ==
    \/ setPluginContext
    \/ resetSkillsStorageInit
    \/ initSkillsStorage
    \/ RegisterResolves

SpecStorage == InitStorage /\ [][NextStorage]_vars

----------------------------------------------------------------------------
(* Claims about initSkillsStorage *)

\* a call of initSkillsStorage starts, returns, in this step
InitStarts == resp'.calls = resp.calls + 1
InitReturns == resp'.returned = resp.returned + 1

C26_Step ==
    /\ resp'.registered <= 1
    /\ (InitStarts /\ ~req.ctx) => resp'.registered = resp.registered
    /\ (InitReturns /\ req.ctx) => resp'.registered = 1

\* C26 as stated: between two resets the calls of initSkillsStorage,
\* sequential or overlapping, register the schema exactly once when a
\* context is set (a call that returns leaves it registered once since the
\* last reset), and a call without a context registers nothing.
C26_AsStated == [][C26_Step]_vars

\* what holds of C26: calls that do not overlap each other or a reset
C26_Sequential == [][~resp'.overlapped => C26_Step]_vars

----------------------------------------------------------------------------
(* Claims about the state store under removal, and about its frame *)

\* slot s, an enableSkillAsync or disableSkillAsync call, writes a record in
\* this step
WritesRecord(s) ==
    /\ pc[s] = "write" /\ op[s] \in {"enable", "disable"}
    /\ pc'[s] = "idle"
    /\ table' # table

C27_Step == \A s \in Slots : WritesRecord(s) => SkillFound(arg[s])

ExistingRecord ==
    [id |-> NameA, enabled |-> FALSE, installed |-> TRUE,
     enabledAt |-> NoTime, lastUsedAt |-> NoTime, useCount |-> 0]

InitExisting ==
    /\ fs = (ManagedPath(NameA) :> FileOf(NameA))
    /\ files = (FileOf(NameA) :> [name |-> NameA, description |-> <<"d">>])
    /\ opts = DefaultOptions
    /\ result = [c \in Callers |-> NoResult]
    /\ table = insert(<<>>, ExistingRecord)
    /\ pc = [s \in Slots |-> "idle"]
    /\ op = [s \in Slots |-> "none"]
    /\ arg = [s \in Slots |-> <<>>]
    /\ existing = [s \in Slots |-> <<>>]
    /\ alone = [s \in Slots |-> TRUE]
    /\ last = [op |-> "none", name |-> <<>>, ret |-> "none"]
    /\ usage = [n \in SkillNames |-> 0]
    /\ clean = [n \in SkillNames |-> TRUE]
    /\ calls = 0
    /\ clock = 1
    /\ RestUnused

SpecExisting == InitExisting /\ [][Next]_vars

\* slot s makes the write of an o call in this step
Writes(s, o) == pc[s] = "write" /\ op[s] = o /\ pc'[s] = "idle"

\* the record of n exists before and after the step
Stays(n) == n \in DOMAIN table /\ n \in DOMAIN table'

Same(n, fields) == \A f \in fields : table'[n][f] = table[n][f]

C29_FrameStep ==
    \A n \in SkillNames : \A s \in Slots :
        /\ (Stays(n) /\ (Writes(s, "enable") \/ Writes(s, "disable"))) =>
               Same(n, {"useCount", "lastUsedAt", "installed"})
        /\ (Stays(n) /\ Writes(s, "usage")) => Same(n, {"enabled", "enabledAt"})
        /\ (n \in DOMAIN table /\ pc'[s] # pc[s] /\ arg[s] # n /\ arg'[s] # n) =>
               (Stays(n) /\ table'[n] = table[n])

NeverDecreases == \A n \in SkillNames : Stays(n) => table'[n].useCount >= table[n].useCount

\* C29 as stated: enableSkillAsync and disableSkillAsync leave useCount,
\* lastUsedAt and installed of an existing record as they are,
\* recordSkillUsage leaves enabled and enabledAt as they are, no call on one
\* name changes the record of another name, and the useCount of a record
\* never decreases while the record exists.
C29_AsStated == [][C29_FrameStep /\ NeverDecreases]_vars

\* what holds of C29: the frame of each write
C29_Frame == [][C29_FrameStep]_vars

----------------------------------------------------------------------------
(* One enableSkillAsync or disableSkillAsync call and one recordSkillUsage   *)
(* call on the same name, whose record exists, in every interleaving         *)

PairRecords ==
    {[id |-> NameA, enabled |-> e, installed |-> TRUE,
      enabledAt |-> IF e THEN 1 ELSE NoTime, lastUsedAt |-> NoTime, useCount |-> 0]
       : e \in BOOLEAN}

\* no call of these kinds has been made
NoneYet(ops) == last.op \notin ops /\ \A q \in Slots : op[q] \notin ops

EnableDisableOnce(s, o) ==
    NoneYet({"enable", "disable"}) /\ EnableDisableCall(s, o, NameA)

UsageOnce(s) == NoneYet({"usage"}) /\ UsageCall(s, NameA)

InitPair ==
    /\ fs = (ManagedPath(NameA) :> FileOf(NameA))
    /\ files = (FileOf(NameA) :> [name |-> NameA, description |-> <<"d">>])
    /\ opts = DefaultOptions
    /\ result = [c \in Callers |-> NoResult]
    /\ table \in {insert(<<>>, r) : r \in PairRecords}
    /\ pc = [s \in Slots |-> "idle"]
    /\ op = [s \in Slots |-> "none"]
    /\ arg = [s \in Slots |-> <<>>]
    /\ existing = [s \in Slots |-> <<>>]
    /\ alone = [s \in Slots |-> TRUE]
    /\ last = [op |-> "none", name |-> <<>>, ret |-> "none"]
    /\ usage = [n \in SkillNames |-> 0]
    /\ clean = [n \in SkillNames |-> TRUE]
    /\ calls = 0
    /\ clock = 1
    /\ RestUnused

NextPair ==
    \/ \E s \in Slots, o \in {"enable", "disable"} : EnableDisableOnce(s, o)
    \/ \E s \in Slots : UsageOnce(s)
    \/ \E s \in Slots : Read(s)
    \/ \E s \in Slots : EnableWrite(s)
    \/ \E s \in Slots : DisableWrite(s)
    \/ \E s \in Slots : UsageWrite(s)
    \/ Tick

SpecPair == InitPair /\ [][NextPair]_vars

\* both calls have been made and have returned
BothReturned == calls = 2 /\ \A s \in Slots : pc[s] = "idle"

C30_Step ==
    \A s \in Slots :
        /\ Writes(s, "enable") => (table'[NameA].enabled /\ Same(NameA, {"useCount"}))
        /\ Writes(s, "disable") => (~table'[NameA].enabled /\ Same(NameA, {"useCount"}))
        /\ Writes(s, "usage") => Same(NameA, {"enabled"})

C30_Final ==
    BothReturned =>
        /\ table[NameA].useCount = 1
        /\ last.ret # "throw"
        /\ last.op = "enable" => table[NameA].enabled
        /\ last.op = "disable" => ~table[NameA].enabled

\* C30: an enableSkillAsync or disableSkillAsync call and a recordSkillUsage
\* call on the same name, whose record exists, interleave in any order: the
\* enable or disable write sets enabled and leaves useCount, the usage write
\* leaves enabled, and when both have returned useCount is one more than
\* before the two calls.
C30_BothEffects == [][C30_Step]_vars /\ []C30_Final

\* both calls have returned, their steps overlapped, and the record is
\* enabled with useCount 1
C30_Witness ==
    /\ BothReturned
    /\ ~clean[NameA]
    /\ table[NameA].enabled /\ table[NameA].useCount = 1
    /\ table[NameA].enabledAt = MaxTime

----------------------------------------------------------------------------
(* Claims about the fetch status of a registry *)

\* the fetch of registry i has succeeded, has failed, and this step records it
SuccessRecorded(i) ==
    /\ i \in DOMAIN req.results
    /\ req.results[i].state = "fetched" /\ req'.results[i].state = "fulfilled"
FailureRecorded(i) ==
    /\ i \in DOMAIN req.results
    /\ req.results[i].state = "rejected"
    /\ resp.pc = "running" /\ resp.i = i /\ resp'.i = i + 1

StampChanges(id) == registries'[id].lastFetchedAt # registries[id].lastFetchedAt

C28_Step ==
    \A i \in DOMAIN req.registries :
        LET id == req.registries[i].id
        IN  id \in DOMAIN registries =>
                /\ StampChanges(id) => (SuccessRecorded(i) /\ registries'[id].lastError = None)
                /\ FailureRecorded(i) => ~StampChanges(id)

\* C28 as stated: fetchAllRegistries changes lastFetchedAt of a registry
\* only when the fetch of that registry succeeded, and then lastError is
\* cleared; a failed fetch sets lastError and leaves lastFetchedAt.
C28_AsStated == [][C28_Step]_vars

\* what holds of C28: a row changes only when the outcome of its own fetch
\* is recorded; lastFetchedAt is then the time of that fetch, succeeded or
\* failed, and lastError is cleared by a success and set by a failure
C28_LastFetch ==
    [][\A i \in DOMAIN req.registries :
          LET id == req.registries[i].id
          IN  (id \in DOMAIN registries /\ registries'[id] # registries[id]) =>
                  /\ registries'[id].lastFetchedAt = "now"
                  /\ \/ SuccessRecorded(i) /\ registries'[id].lastError = None
                     \/ FailureRecorded(i) /\ registries'[id].lastError = req.results[i].reason]_vars

====
